---- MODULE Spec2Model ----
(***************************************************************************)
(* A state-machine model of the meex packet codec and stream engine:       *)
(* the framing readers, the TM gap engine, the time-window merger, the     *)
(* deduplicating writer, the mix reader and the archive walker.            *)
(*                                                                         *)
(* Each component has its own group of variables, its own Init/Next and    *)
(* its own specification; the variables of the other components stay at    *)
(* their idle values.                                                      *)
(***************************************************************************)
EXTENDS Integers, Sequences, FiniteSets, TLC

VARIABLES
    \* ---- framing readers ------------------------------------------------
    fImpl,      \* which reader is bound to the source: "Next", "Scan", "Read", "Read010"
    fRecs,      \* the well-formed records the source was built from (ghost)
    fTail,      \* the truncated record that ends the source, or << >> (ghost)
    fSrc,       \* the bytes of the source
    fPos,       \* bytes the underlying source has delivered so far
    fShorts,    \* how often an underlying Read returned short although more bytes were left
    r_buffer,   \* Reader.buffer: offset -> byte, for the bytes written so far (others are 0)
    r_offset,   \* Reader.offset (Next) / bytes consumed by the caller (Scan, Read)
    fOut,       \* the frames emitted so far
    fErr,       \* the error of the last call: "nil", "EOF", ...
    \* ---- gap engine -----------------------------------------------------
    gOp,        \* the last operation: "none", "Diff" or "Gaps"
    gT,         \* Diff: the receiver t / Gaps: the packet curr
    gO,         \* Diff: the argument o / Gaps: the packet prev (NoPacket: none)
    gRes,       \* the *Gap returned or queued (NoGap: nil)
    gs,         \* Reader.Gaps: the map gs, id -> last packet
    gCount,     \* Reader.Gaps: packets received so far
    \* ---- merger ---------------------------------------------------------
    mPc,        \* where Merge stands: "none", "start", "loop", "done", "error", "panic"
    mIn,        \* the packets of the two inputs, <<source, target>> (ghost)
    mSrc,       \* packets the source reader has still to deliver on its channel
    mTgt,       \* packets the target reader has still to deliver on its channel
    mP0,        \* p0, the packet in hand from the source (Nil: none)
    mP1,        \* p1, the packet in hand from the target (Nil: none)
    mLow,       \* low; high is low + span
    mStats,     \* MergeStats: Rogue, Count, Size (Starts and Ends are low and high)
    mW,         \* the noDuplicateWriter and its sink: sums, out, calls, failAt, err, n
    \* ---- deduplicating writer -------------------------------------------
    dW,         \* the noDuplicateWriter and its sink
    dLog,       \* the records handed to Write so far, in order (ghost)
    dBefore,    \* the sink as it was before the last Write (ghost)
    dSinkFailed,\* a write to the sink has failed (ghost)
    \* ---- mixing reader ---------------------------------------------------
    xPc,        \* "none", "open", or "eof" once Read has returned io.EOF
    xIn,        \* the records of each scanner handed to MixReader (ghost)
    xRs,        \* mixReaders.rs: the scanners, each with its records, position and token
    xOut,       \* what the calls of Read returned, in order
    \* ---- walk --------------------------------------------------------------
    wPaths,     \* the paths handed to Walk (ghost)
    wFs,        \* the file system: path -> outcomes of decoding its records, or Missing
    wPc,        \* the goroutine of Walk: "none", "start", "loop", "range", "send", "closed"
    wTodo,      \* the sorted paths still to walk
    wOpen,      \* the files that are open
    wPkt,       \* the packet Walk holds for q
    rdPc,       \* the goroutine of Reader.packets: "none", "next", "send", "closed"
    rdPos,      \* records of the open file it has read
    rdPkt,      \* the packet it holds for r.queue
    cPc,        \* the consumer of q: "none", "recv", "stopped", "ended"
    cGot,       \* the packets the consumer has received
    \* ---- time-keyed archive ---------------------------------------------
    tpPc,       \* runDispatch: "none", "run", or "error" once it has returned an error
    tpFs,       \* the regular files under the data directory: path -> records
    tpWs,       \* ws of runDispatch: key -> the file opened for it
    tpLog,      \* the packets written so far, each with its file (ghost)
    tpList,     \* the last call of ListPaths: fd, td, the version and the result
    \* ---- VMU decoding ------------------------------------------------------
    vOp,        \* "none", "new", then "part_013" or "scan.go" (DecodeVMU) or "HRD"
    vRec,       \* the record handed to the decoder
    vPkt,       \* the packet the decoder returned (Nil: nil)
    vErr,       \* the error the decoder returned
    vError,     \* what Error() of the packet returned
    vQueue,     \* the packets Reader.packets has put on its queue
    \* ---- seekable derived streams ------------------------------------------
    sImpl,      \* "none", "shuffler" (SortWith, Shuffle) or "joiner" (JoinWith)
    sSrcs,      \* the records of each source (ghost)
    sIndex,     \* shuffler.index / joiner.index
    sPos,       \* shuffler.pos / joiner.offset
    sLast,      \* what the last Read returned, with its buffer and position
    \* ---- Diff called both ways round ---------------------------------------
    kImpl,      \* whose PDPacket.Diff: "part_013" or "scan" (src/scan.go)
    kPc,        \* "idle", "start", "forward" (p.Diff(q) done) or "done"
    kP,         \* the packet p
    kQ,         \* the packet q, or NoPacket for nil
    kPQ,        \* the result of p.Diff(q)
    kQP,        \* the result of q.Diff(p)
    \* ---- gap tracking over a walk ------------------------------------------
    tImpl,      \* "none", "Gaps" (cmd/meex/walk.go) or "reportGaps" (part_005)
    tDuration,  \* reportGaps' duration argument
    tGs,        \* the map gs: key -> packet
    tLatest,    \* key -> the last packet of that key the walk delivered (ghost)
    tCurr,      \* the packet of the last turn
    tKey,       \* its key
    tBefore,    \* the packet of that key delivered before it, or NoPacket (ghost)
    tGap,       \* what Diff returned in the last turn
    tReported,  \* whether the last turn sent or logged its gap
    tCount,     \* packets processed
    \* ---- Reader.packets ----------------------------------------------------
    pImpl,      \* whose Reader: "none", "part_013" or "scan" (src/scan.go)
    pPc,        \* the goroutine of packets: "none", "loop", "got", "closed"
    pRecs,      \* what decoding each record of the source gives (ghost)
    pPos,       \* records read
    pFail,      \* how the underlying reader fails: "never", "once", "always"
    pFailAt,    \* the records read before it fails
    pErr,       \* the error of the last r.Next()
    pSent,      \* packets put on r.queue
    \* ---- the buffer of a Reader --------------------------------------------
    bPc,        \* the goroutine of packets: "none", "next", "send", "closed", "panic"
    bcPc,       \* the Merger: "none", "first", "until", "done"
    bRecs,      \* the records of the source: payload size and timestamp (ghost)
    bPos,       \* records read
    bOffset,    \* Reader.offset
    bPkt,       \* the packet packets holds for r.queue: record, timestamp, bytes of the buffer
    bHeld,      \* the packets the Merger holds: p0 and those scanUntil has collected
    bT,         \* the timestamp scanUntil collects
    bDirty,     \* the records whose packet had bytes written again while held (ghost)
    \* ---- CountByDay --------------------------------------------------------
    cdPc,       \* CountByDay: "none", "run", or "done" once q is closed
    cdGs,       \* the map gs: key -> the bucket that is open
    cdOut,      \* the buckets sent on q, in order
    cdLog,      \* the packets Walk has delivered, in order (ghost)
    \* ---- Sort --------------------------------------------------------------
    oPc,        \* "none", "new", "read", or "eof" once Read has returned io.EOF
    oFunc,      \* the SortFunc: "nil", "SortTMIndex" or "SortHRDIndex"
    oIn,        \* the index of the source, in source order (ghost)
    oIndex,     \* shuffler.index
    oPos,       \* shuffler.pos
    oGot,       \* the entries whose records Read has returned, in order
    \* ---- Join --------------------------------------------------------------
    jPc,        \* "none", "index", "read", or "eof" once Read has returned io.EOF
    jSrcs,      \* the records of each source (ghost)
    jPending,   \* the sources whose indexer has not finished
    jIndex,     \* index of JoinWith, then joiner.index
    jMs,        \* ms of JoinWith, then joiner.rs: digest -> source
    jOffset,    \* joiner.offset
    jGot,       \* what the calls of Read returned: source, offset and length, and the entry
    \* ---- runExtract --------------------------------------------------------
    ePc,        \* the goroutine of each file: "go", "extract", "done"
    eFails,     \* the files whose extractPackets returns an error (ghost)
    eSema,      \* tokens in sema
    eErr,       \* the first error the group has kept: the file, or 0
    eRet        \* runExtract: "none", "wait", then what it returned: "nil" or "error"

fvars == <<fImpl, fRecs, fTail, fSrc, fPos, fShorts, r_buffer, r_offset, fOut, fErr>>
gvars == <<gOp, gT, gO, gRes, gs, gCount>>
mvars == <<mPc, mIn, mSrc, mTgt, mP0, mP1, mLow, mStats, mW>>

dvars == <<dW, dLog, dBefore, dSinkFailed>>
xvars == <<xPc, xIn, xRs, xOut>>
wvars == <<wPaths, wFs, wPc, wTodo, wOpen, wPkt, rdPc, rdPos, rdPkt, cPc, cGot>>

tpvars == <<tpPc, tpFs, tpWs, tpLog, tpList>>

vvars == <<vOp, vRec, vPkt, vErr, vError, vQueue>>

svars == <<sImpl, sSrcs, sIndex, sPos, sLast>>

kvars == <<kImpl, kPc, kP, kQ, kPQ, kQP>>

tvars == <<tImpl, tDuration, tGs, tLatest, tCurr, tKey, tBefore, tGap, tReported, tCount>>

pvars == <<pImpl, pPc, pRecs, pPos, pFail, pFailAt, pErr, pSent>>

bvars == <<bPc, bcPc, bRecs, bPos, bOffset, bPkt, bHeld, bT, bDirty>>

cdvars == <<cdPc, cdGs, cdOut, cdLog>>

ovars == <<oPc, oFunc, oIn, oIndex, oPos, oGot>>

jvars == <<jPc, jSrcs, jPending, jIndex, jMs, jOffset, jGot>>

evars == <<ePc, eFails, eSema, eErr, eRet>>

vars == <<fvars, gvars, mvars, dvars, xvars, wvars, tpvars, vvars, svars, kvars, tvars, pvars, bvars, cdvars, ovars, jvars, evars>>

\* what the steps of one component leave alone
notFrame == <<gvars, mvars, dvars, xvars, wvars, tpvars, vvars, svars, kvars, tvars, pvars, bvars, cdvars, ovars, jvars, evars>>
notGap == <<fvars, mvars, dvars, xvars, wvars, tpvars, vvars, svars, kvars, tvars, pvars, bvars, cdvars, ovars, jvars, evars>>
notMerge == <<fvars, gvars, dvars, xvars, wvars, tpvars, vvars, svars, kvars, tvars, pvars, bvars, cdvars, ovars, jvars, evars>>
notDedup == <<fvars, gvars, mvars, xvars, wvars, tpvars, vvars, svars, kvars, tvars, pvars, bvars, cdvars, ovars, jvars, evars>>
notMix == <<fvars, gvars, mvars, dvars, wvars, tpvars, vvars, svars, kvars, tvars, pvars, bvars, cdvars, ovars, jvars, evars>>
notWalk == <<fvars, gvars, mvars, dvars, xvars, tpvars, vvars, svars, kvars, tvars, pvars, bvars, cdvars, ovars, jvars, evars>>
notTimePath == <<fvars, gvars, mvars, dvars, xvars, wvars, vvars, svars, kvars, tvars, pvars, bvars, cdvars, ovars, jvars, evars>>
notVMU == <<fvars, gvars, mvars, dvars, xvars, wvars, tpvars, svars, kvars, tvars, pvars, bvars, cdvars, ovars, jvars, evars>>
notSeek == <<fvars, gvars, mvars, dvars, xvars, wvars, tpvars, vvars, kvars, tvars, pvars, bvars, cdvars, ovars, jvars, evars>>
notDiff == <<fvars, gvars, mvars, dvars, xvars, wvars, tpvars, vvars, svars, tvars, pvars, bvars, cdvars, ovars, jvars, evars>>
notTrack == <<fvars, gvars, mvars, dvars, xvars, wvars, tpvars, vvars, svars, kvars, pvars, bvars, cdvars, ovars, jvars, evars>>
notPackets == <<fvars, gvars, mvars, dvars, xvars, wvars, tpvars, vvars, svars, kvars, tvars, bvars, cdvars, ovars, jvars, evars>>
notBuffer == <<fvars, gvars, mvars, dvars, xvars, wvars, tpvars, vvars, svars, kvars, tvars, pvars, cdvars, ovars, jvars, evars>>
notCount == <<fvars, gvars, mvars, dvars, xvars, wvars, tpvars, vvars, svars, kvars, tvars, pvars, bvars, ovars, jvars, evars>>
notSort == <<fvars, gvars, mvars, dvars, xvars, wvars, tpvars, vvars, svars, kvars, tvars, pvars, bvars, cdvars, jvars, evars>>
notJoin == <<fvars, gvars, mvars, dvars, xvars, wvars, tpvars, vvars, svars, kvars, tvars, pvars, bvars, cdvars, ovars, evars>>
notExtract == <<fvars, gvars, mvars, dvars, xvars, wvars, tpvars, vvars, svars, kvars, tvars, pvars, bvars, cdvars, ovars, jvars>>

\* ------------------------------------------------------------------------
\* Bounds of the model
\* ------------------------------------------------------------------------
MaxRecs == 2        \* records per source
MaxSize == 2        \* largest size prefix of a generated record
MaxShorts == 1      \* short reads of the underlying source per run
MaxTime == 2        \* timestamps of generated packets are 0..MaxTime
MaxGaps == 3        \* packets one run of Reader.Gaps receives
MaxIn == 2          \* packets per input of the merger
MaxFailAt == 1      \* the sink write that fails is the 1st..MaxFailAt-th, or none
MaxKinds == 3        \* distinct records a caller of the deduplicating writer writes
MaxWrites == 3       \* writes per run of the deduplicating writer
MaxScanners == 2     \* scanners handed to MixReader
MaxTokens == 3       \* records per scanner
MaxPaths == 2        \* paths handed to Walk
MaxFileRecs == 2     \* records per file
MaxDispatch == 2      \* packets runDispatch receives
MaxSeekRecs == 2      \* records per source of a derived stream
MaxSources == 2       \* sources handed to JoinWith
MaxTrack == 3         \* packets a gap tracker processes
MaxQueued == 3        \* records of a source read by Reader.packets
MaxBufRecs == 4       \* records of a source read through the buffer
MaxCounted == 3       \* packets CountByDay receives
MaxDayTime == 4       \* timestamps of counted packets, in units of 12 hours
MaxSorted == 3        \* records of a sorted source
MaxJoinRecs == 2      \* records per joined source
MaxFiles == 5         \* files handed to runExtract
FillBytes == {1, 2} \* payload byte values

\* ------------------------------------------------------------------------
\* Helpers
\* ------------------------------------------------------------------------
Min(a, b) == IF a < b THEN a ELSE b
Max(a, b) == IF a > b THEN a ELSE b

RECURSIVE Flatten(_)
Flatten(ss) == IF ss = << >> THEN << >> ELSE Head(ss) \o Flatten(Tail(ss))

IsPrefix(s, t) == Len(s) <= Len(t) /\ SubSeq(t, 1, Len(s)) = s

SeqsUpTo(S, n) == UNION {[1..k -> S] : k \in 0..n}

\* ------------------------------------------------------------------------
\* Record framing
\* ------------------------------------------------------------------------
maxBufferSize == 33554432   \* 32 << 20, the Reader's buffer
MaxBufferSize == 8388608    \* 8 << 20, the Scanner's largest token
ReadAhead == 4096           \* 4 << 10, the bufio.Reader of meex.Reader

\* binary.LittleEndian.Uint32
Uint32LE(b0, b1, b2, b3) == b0 + 256 * b1 + 65536 * b2 + 16777216 * b3

\* binary.LittleEndian.PutUint32
PutUint32LE(n) == <<n % 256, (n \div 256) % 256, (n \div 65536) % 256, (n \div 16777216) % 256>>

\* a record of `size` payload bytes, all equal to b
Record(size, b) == PutUint32LE(size) \o [i \in 1..size |-> b]

Records == {Record(n, b) : n \in 0..MaxSize, b \in FillBytes}

\* a record cut short: a strict prefix of a record (empty: no truncation)
Tails == UNION {{SubSeq(r, 1, k) : k \in 0..(Len(r) - 1)} : r \in Records}

\* A frame is kept as its length and its non-zero bytes by position (0-based):
\* a slice of the Reader's 32 MiB buffer is mostly untouched zero bytes.
\* the start of a record whose size prefix, 3 << 24, is more than 32 MiB
Oversized == {PutUint32LE(50331648), PutUint32LE(50331648) \o <<1>>}

FrameOfSeq(s) ==
    [len |-> Len(s),
     nz  |-> [j \in {i - 1 : i \in {k \in 1..Len(s) : s[k] # 0}} |-> s[j + 1]]]

FramesOf(rs) == [i \in 1..Len(rs) |-> FrameOfSeq(rs[i])]

\* r.buffer[i]
At(buf, i) == IF i \in DOMAIN buf THEN buf[i] ELSE 0

\* r.buffer[a : a+n] as a frame
SliceFrame(buf, a, n) ==
    [len |-> n,
     nz  |-> [j \in {k - a : k \in {i \in DOMAIN buf : i >= a /\ i < a + n /\ buf[i] # 0}}
                |-> buf[j + a]]]

\* reader.Read(buffer[o : o+n]) once the source has delivered `pos` bytes:
\* the n next bytes of the stream land at o, o+1, ...
FillBuffer(buf, o, pos, n) ==
    [i \in (DOMAIN buf) \cup (o..(o + n - 1)) |->
        IF i >= o /\ i < o + n THEN fSrc[pos + (i - o) + 1] ELSE buf[i]]

\* copy(r.buffer, r.buffer[o : o+4])
CopyPrefix(buf, o) ==
    [i \in (DOMAIN buf) \cup (0..3) |-> IF i < 4 THEN At(buf, o + i) ELSE buf[i]]

\* a Read that returned n of `want` although more than n bytes were left
ShortRead(want, n, left) == n < want /\ n < left

\* What one Read(p) of the underlying source may return with `left` bytes left:
\* 0 for an empty p (and no error), otherwise any count from 1 up to what fits
\* (a short count only while the run's short reads are not used up).
\* With nothing left it returns 0 and io.EOF (handled by the callers below).
ReadCounts(want, left, shorts) ==
    IF want = 0 THEN {0}
    ELSE {n \in 1..Min(want, left) : ShortRead(want, n, left) => shorts < MaxShorts}

Shorts(shorts, want, n, left) == IF ShortRead(want, n, left) THEN shorts + 1 ELSE shorts

Left == Len(fSrc) - fPos

\* ------------------------------------------------------------------------
\* Reader.Next over the 32 MiB buffer, driven by Reader.packets: one step is
\* one turn of the loop of packets (a call of Next and the send of its packet)
\* ------------------------------------------------------------------------

\* the frame Next hands to the decoder; here a decoder that keeps every frame
\* (DecoderFunc returning the bytes as they are, no error)
Decode(frame) == frame

\* Next returned (nil, err): nothing is sent
NextFails(err, off, buf, pos, shorts) ==
    /\ fErr' = err
    /\ r_offset' = off
    /\ r_buffer' = buf
    /\ fPos' = pos
    /\ fShorts' = shorts
    /\ fOut' = fOut

\* the second half of Next, once the prefix bytes are in the buffer
NextBody(off0, b1, pos1, ch1) ==
    LET size == Uint32LE(At(b1, off0), At(b1, off0 + 1), At(b1, off0 + 2), At(b1, off0 + 3))
        wrap == size >= maxBufferSize - off0
        b2   == IF wrap THEN CopyPrefix(b1, off0) ELSE b1
        off1 == IF wrap THEN 0 ELSE off0
        left == Len(fSrc) - pos1
    IN  IF off1 + size + 4 > maxBufferSize
        THEN \* buffer[off1+4 : off1+size+4] is out of range: run-time panic
             NextFails("panic", off1, b2, pos1, ch1)
        ELSE IF size > 0 /\ left = 0
        THEN NextFails("EOF", off1, b2, pos1, ch1)
        ELSE \E n2 \in ReadCounts(size, left, ch1) :
                LET b3 == FillBuffer(b2, off1 + 4, pos1, n2) IN
                /\ fErr' = "nil"
                /\ r_buffer' = b3
                /\ r_offset' = off1 + size + 4
                /\ fPos' = pos1 + n2
                /\ fShorts' = Shorts(ch1, size, n2, left)
                /\ fOut' = Append(fOut, Decode(SliceFrame(b3, off1, size + 4)))

ReaderNext ==
    /\ fImpl = "Next"
    /\ fErr \notin {"EOF", "panic"}
    /\ LET off0 == IF maxBufferSize - r_offset < 1024 THEN 0 ELSE r_offset IN
       IF Left = 0
       THEN NextFails("EOF", off0, r_buffer, fPos, fShorts)
       ELSE \E n1 \in ReadCounts(4, Left, fShorts) :
               NextBody(off0, FillBuffer(r_buffer, off0, fPos, n1), fPos + n1,
                        Shorts(fShorts, 4, n1, Left))
    /\ UNCHANGED <<fImpl, fRecs, fTail, fSrc>>
    /\ UNCHANGED notFrame

\* ------------------------------------------------------------------------
\* bufio.Scanner with the split function scanPackets: one step is one Scan()
\* ------------------------------------------------------------------------

\* scanPackets(bs, ateof): (advance, token); a token of << >> stands for nil
scanPackets(bs) ==
    IF Len(bs) < 4
    THEN [advance |-> 0, token |-> << >>]
    ELSE LET size == Uint32LE(bs[1], bs[2], bs[3], bs[4]) + 4 IN
         IF Len(bs) < size
         THEN [advance |-> 0, token |-> << >>]
         ELSE [advance |-> size, token |-> SubSeq(bs, 1, size)]

\* the Scanner's buffered, not yet consumed bytes when the source delivered e bytes
Buffered(e) == SubSeq(fSrc, r_offset + 1, e)

ScannerScan ==
    /\ fImpl = "Scan"
    /\ fErr \notin {"EOF", "ErrTooLong"}
    /\ \/ \* the source delivers up to e bytes and the split function finds a token;
          \* no Read is issued when the buffer already holds one
          \E e \in fPos..Len(fSrc) :
             /\ scanPackets(Buffered(e)).advance > 0
             /\ e > fPos => scanPackets(Buffered(fPos)).advance = 0
             /\ fOut' = Append(fOut, FrameOfSeq(scanPackets(Buffered(e)).token))
             /\ r_offset' = r_offset + scanPackets(Buffered(e)).advance
             /\ fPos' = e
             /\ fErr' = "nil"
       \/ \* a token longer than the largest buffer: Scan stops with ErrTooLong
          /\ scanPackets(Buffered(Len(fSrc))).advance = 0
          /\ Len(fSrc) - r_offset >= MaxBufferSize
          /\ fPos' = r_offset + MaxBufferSize
          /\ fErr' = "ErrTooLong"
          /\ UNCHANGED <<fOut, r_offset>>
       \/ \* the source ends and the split function still asks for more: Scan
          \* returns false with no error
          /\ scanPackets(Buffered(Len(fSrc))).advance = 0
          /\ Len(fSrc) - r_offset < MaxBufferSize
          /\ fPos' = Len(fSrc)
          /\ fErr' = "EOF"
          /\ UNCHANGED <<fOut, r_offset>>
    /\ UNCHANGED <<fImpl, fRecs, fTail, fSrc, fShorts, r_buffer>>
    /\ UNCHANGED notFrame

\* ------------------------------------------------------------------------
\* meex.Reader.Read over a bufio.Reader: one step is one Read(xs)
\* ------------------------------------------------------------------------

\* caller buffers: one that holds only an empty record, one that holds any record
XsLens == {4, 4 + MaxSize + 1}

\* bufio.Reader: after the call the underlying source has delivered at least
\* `upto` bytes and at most one buffer more than was consumed
AheadTo(upto) == {e \in Max(fPos, upto)..Len(fSrc) : e <= Max(fPos, upto + ReadAhead)}

ReaderRead(lenxs) ==
    /\ fImpl = "Read"
    /\ fErr # "EOF"
    /\ IF Len(fSrc) - r_offset < 4
       THEN \* Peek(4) fails: the source ended
            /\ fErr' = "EOF"
            /\ fPos' = Len(fSrc)
            /\ UNCHANGED <<fOut, r_offset>>
       ELSE LET needed == Uint32LE(fSrc[r_offset + 1], fSrc[r_offset + 2],
                                   fSrc[r_offset + 3], fSrc[r_offset + 4])
                offset == needed + 4
            IN  IF lenxs < offset
                THEN /\ fErr' = "ErrShortBuffer"
                     /\ fPos' \in AheadTo(r_offset + 4)
                     /\ UNCHANGED <<fOut, r_offset>>
                ELSE IF Len(fSrc) - r_offset < offset
                THEN \* io.ReadFull: n < offset bytes and ErrUnexpectedEOF
                     /\ fErr' = "ErrUnexpectedEOF"
                     /\ fPos' = Len(fSrc)
                     /\ r_offset' = Len(fSrc)
                     /\ fOut' = fOut
                ELSE /\ fErr' = "nil"
                     /\ fPos' \in AheadTo(r_offset + offset)
                     /\ r_offset' = r_offset + offset
                     /\ fOut' = Append(fOut, FrameOfSeq(SubSeq(fSrc, r_offset + 1, r_offset + offset)))
    /\ UNCHANGED <<fImpl, fRecs, fTail, fSrc, fShorts, r_buffer>>
    /\ UNCHANGED notFrame

\* Reader.Read of the draft that reads the prefix with binary.Read: one step is
\* one Read(xs)
ReaderRead010(lenxs) ==
    /\ fImpl = "Read010"
    /\ fErr # "EOF"
    /\ LET avail == Len(fSrc) - r_offset IN
       IF avail < 4
       THEN \* binary.Read fails: io.EOF with no byte left, else ErrUnexpectedEOF
            /\ fErr' = IF avail = 0 THEN "EOF" ELSE "ErrUnexpectedEOF"
            /\ fPos' = Len(fSrc)
            /\ r_offset' = Len(fSrc)
            /\ fOut' = fOut
       ELSE LET needed == Uint32LE(fSrc[r_offset + 1], fSrc[r_offset + 2],
                                   fSrc[r_offset + 3], fSrc[r_offset + 4])
                offset == needed + 4
            IN  IF lenxs < offset
                THEN \* the prefix has been read
                     /\ fErr' = "ErrShortBuffer"
                     /\ fPos' \in AheadTo(r_offset + 4)
                     /\ r_offset' = r_offset + 4
                     /\ fOut' = fOut
                ELSE IF avail < offset
                THEN \* io.ReadFull(xs[4:offset]) fails
                     /\ fErr' = IF avail = 4 THEN "EOF" ELSE "ErrUnexpectedEOF"
                     /\ fPos' = Len(fSrc)
                     /\ r_offset' = Len(fSrc)
                     /\ fOut' = fOut
                ELSE /\ fErr' = "nil"
                     /\ fPos' \in AheadTo(r_offset + offset)
                     /\ r_offset' = r_offset + offset
                     /\ fOut' = Append(fOut, FrameOfSeq(PutUint32LE(needed) \o
                                    SubSeq(fSrc, r_offset + 5, r_offset + offset)))
    /\ UNCHANGED <<fImpl, fRecs, fTail, fSrc, fShorts, r_buffer>>
    /\ UNCHANGED notFrame

\* ------------------------------------------------------------------------
\* The framing specification
\* ------------------------------------------------------------------------
IdleFrame ==
    /\ fImpl = "none"
    /\ fRecs = << >>
    /\ fTail = << >>
    /\ fSrc = << >>
    /\ fPos = 0
    /\ fShorts = 0
    /\ r_buffer = << >>
    /\ r_offset = 0
    /\ fOut = << >>
    /\ fErr = "nil"

InitFrame ==
    /\ fImpl \in {"Next", "Scan", "Read", "Read010"}
    /\ fRecs \in SeqsUpTo(Records, MaxRecs)
    /\ fTail \in Tails \cup Oversized
    /\ fSrc = Flatten(fRecs) \o fTail
    /\ fPos = 0
    /\ fShorts = 0
    /\ r_buffer = << >>
    /\ r_offset = 0
    /\ fOut = << >>
    /\ fErr = "nil"

NextFrame ==
    \/ ReaderNext
    \/ ScannerScan
    \/ \E lenxs \in XsLens : ReaderRead(lenxs)
    \/ \E lenxs \in XsLens : ReaderRead010(lenxs)

\* ------------------------------------------------------------------------
\* Framing claims
\* ------------------------------------------------------------------------

\* the reader stopped: it reported end-of-stream or crashed
FrameDone == fErr \in {"EOF", "panic", "ErrTooLong"}

\* C1: framing round-trip. For a source that is a concatenation of well-formed
\* records, however its reads are chunked, the frames emitted are always the
\* first records of the source, byte-identical and in order, the reader never
\* fails otherwise than with end-of-stream, and at end-of-stream every record
\* has been emitted.
C1_FramingRoundTrip ==
    fTail = << >> =>
        /\ IsPrefix(fOut, FramesOf(fRecs))
        /\ fErr \notin {"panic", "ErrTooLong", "ErrUnexpectedEOF"}
        /\ fErr = "EOF" => fOut = FramesOf(fRecs)

\* C2: no partial frame. For a source that ends inside a record, read with no
\* short read before the end, no frame is emitted for the cut record: the frames
\* emitted are always the first complete records of the source, and at
\* end-of-stream exactly the complete records have been emitted.
C2_NoPartialFrame ==
    (fTail # << >> /\ fShorts = 0) =>
        /\ IsPrefix(fOut, FramesOf(fRecs))
        /\ fErr = "EOF" => fOut = FramesOf(fRecs)

\* the bytes of the frames fs
RECURSIVE FrameBytes(_)
FrameBytes(fs) == IF fs = << >> THEN 0 ELSE Head(fs).len + FrameBytes(Tail(fs))

\* C16: short buffer. For a source of well-formed records, a Reader.Read that
\* fails with ErrShortBuffer consumes no byte, not even the size prefix: the
\* bytes consumed are those of the records returned, and the records returned
\* are always the first records of the source, complete and byte-identical.
C16_ShortBufferNoAdvance ==
    (fImpl \in {"Read", "Read010"} /\ fTail = << >>) =>
        /\ fErr = "ErrShortBuffer" => r_offset = FrameBytes(fOut)
        /\ IsPrefix(fOut, FramesOf(fRecs))

\* C15: oversized record. For a source whose last record has a size prefix of
\* more than 32 MiB, read with no short read, the reader emits no frame for
\* that record, does not crash, and does not report a normal end-of-stream.
C15_Oversized ==
    (fTail \in Oversized /\ fShorts = 0) =>
        /\ IsPrefix(fOut, FramesOf(fRecs))
        /\ fErr # "panic"
        /\ fErr # "EOF"

\* ------------------------------------------------------------------------
\* Gap engine: TMPacket.Diff, Gap.Missing and Reader.Gaps
\* ------------------------------------------------------------------------
NoPacket == [kind |-> "nil"]
NoGap == [kind |-> "nil"]

Apids == {418, 419}                 \* 0x1A2 and another one
Sources == {17}                     \* 0x11
SeqVals == {0, 7, 8, 10, 16383}     \* CCSDS sequence counts, Fragment & 0x3FFF

TMPackets ==
    [kind : {"TM"}, apid : Apids, source : Sources, seq : SeqVals, ts : 0..MaxTime]

\* TMPacket.Diff once the receiver is known not to be earlier than the argument
DiffLater(t, o) ==
    IF ((t.seq - o.seq) % 16384) <= 1
    THEN NoGap
    ELSE [kind |-> "Gap", Id |-> t.apid, Starts |-> o.ts, Ends |-> t.ts,
          First |-> t.seq, Last |-> o.seq]

\* t.Diff(o)
TMDiff(t, o) ==
    IF o = NoPacket \/ o.kind # "TM" \/ t.apid # o.apid
    THEN NoGap
    ELSE IF o.ts > t.ts THEN DiffLater(o, t) ELSE DiffLater(t, o)

\* g.Missing()
Missing(g) ==
    LET d == g.First - g.Last IN IF d < 0 THEN 0 - d ELSE d

\* the call t.Diff(o) on the two packets drawn at the start
DiffCall ==
    /\ gOp = "none"
    /\ gT # NoPacket
    /\ gOp' = "Diff"
    /\ gRes' = TMDiff(gT, gO)
    /\ UNCHANGED <<gT, gO, gs, gCount>>
    /\ UNCHANGED notGap

\* one turn of the loop of Reader.Gaps: the packet curr arrives
GapsReceive ==
    /\ gOp = "Gaps" \/ (gOp = "none" /\ gT = NoPacket)
    /\ gCount < MaxGaps
    /\ UNCHANGED notGap
    /\ \E curr \in TMPackets :
        LET id   == curr.apid
            ok   == id \in DOMAIN gs
            prev == IF ok THEN gs[id] ELSE NoPacket
        IN  /\ gOp' = "Gaps"
            /\ gT' = curr
            /\ gO' = prev
            /\ gRes' = IF ok /\ prev.seq + 1 # curr.seq
                       THEN [kind |-> "Gap", Id |-> id, Starts |-> prev.ts, Ends |-> curr.ts,
                             First |-> curr.seq, Last |-> prev.seq]
                       ELSE NoGap
            /\ gs' = [i \in (DOMAIN gs) \cup {id} |-> IF i = id THEN curr ELSE gs[i]]
            /\ gCount' = gCount + 1

IdleGap ==
    /\ gOp = "none"
    /\ gT = NoPacket
    /\ gO = NoPacket
    /\ gRes = NoGap
    /\ gs = << >>
    /\ gCount = 0

\* either the two packets of a Diff call, or the start of a run of Reader.Gaps
InitGap ==
    /\ gOp = "none"
    /\ \/ gT \in TMPackets /\ gO \in TMPackets \cup {NoPacket}
       \/ gT = NoPacket /\ gO = NoPacket
    /\ gRes = NoGap
    /\ gs = << >>
    /\ gCount = 0

NextGap ==
    \/ DiffCall
    \/ GapsReceive

\* ------------------------------------------------------------------------
\* Gap claims
\* ------------------------------------------------------------------------

\* the chronologically earlier and later packet of the last operation
\* (Gaps: the previous and the current packet)
SameIdentity == gO # NoPacket /\ gT.apid = gO.apid /\ gT.source = gO.source
Earlier == IF gO.ts < gT.ts THEN gO ELSE gT
Later == IF gO.ts < gT.ts THEN gT ELSE gO

\* C3: gap size. When k >= 1 sequence numbers are missing between the earlier
\* and the later of two TM packets of one identity (later.sequence =
\* earlier.sequence + k + 1 modulo 2^14), Diff returns a Gap with last =
\* earlier.sequence, first = later.sequence and Missing() = k.
C3_GapSize ==
    (gOp = "Diff" /\ SameIdentity /\ gO.ts # gT.ts
        /\ (Later.seq - Earlier.seq - 1) % 16384 >= 1
        /\ (Later.seq - Earlier.seq - 1) % 16384 < 16383) =>
            /\ gRes # NoGap
            /\ gRes.Last = Earlier.seq
            /\ gRes.First = Later.seq
            /\ Missing(gRes) = (Later.seq - Earlier.seq - 1) % 16384

\* C4: TM gap detection is exact modulo 2^14. For the earlier packet a and the
\* later packet b of one identity, Diff (and Reader.Gaps, for a previous packet
\* earlier than the current one) reports a gap if and only if
\* b.sequence # (a.sequence + 1) mod 2^14.
C4_GapIffNotNext ==
    (gOp \in {"Diff", "Gaps"} /\ SameIdentity /\ gO.ts # gT.ts
        /\ (gOp = "Gaps" => gO.ts < gT.ts)) =>
            (gRes # NoGap <=> Later.seq # (Earlier.seq + 1) % 16384)

\* ------------------------------------------------------------------------
\* Time-window merger: Merger.Merge over the channels of two Readers, writing
\* through a noDuplicateWriter
\* ------------------------------------------------------------------------
Nil == [kind |-> "nil"]

Five == 5                   \* time.Minute * 5, in minutes
TsVals == {3, 4, 7}         \* timestamps, minutes after 00:00
MSeqVals == {0, 1}          \* sequence counts

\* a decoded packet; its bytes are the packet itself, len(p.Bytes()) is len
MPackets == [kind : {"TM"}, ts : TsVals, seq : MSeqVals, len : {30}]

\* t.Truncate(span)
Truncate(t, span) == t - (t % span)

\* isRogue(t, low, high)
isRogue(t, low, high) == t < low \/ t = high \/ t > high

\* md5.Sum(bs): distinct records have distinct sums
md5Sum(bs) == bs

\* a writer that has written nothing; its sink fails on the failAt-th write
NewWriter(failAt) ==
    [sums |-> {}, out |-> << >>, calls |-> 0, failAt |-> failAt, err |-> FALSE, n |-> 0]

\* a writer that never looks a sum up
WriterWriteUnchecked(w, bs) ==
    [w EXCEPT !.calls = @ + 1, !.err = FALSE, !.n = bs.len, !.out = Append(@, bs)]

\* noDuplicateWriter.Write(bs) on the writer w: a record seen before succeeds
\* with len(bs) and without a write; otherwise its sum is kept and the sink is
\* written, which fails on the failAt-th write. n and err are what Write returns
WriterWrite(w, bs) ==
    IF md5Sum(bs) \in w.sums
    THEN [w EXCEPT !.err = FALSE, !.n = bs.len]
    ELSE IF w.calls + 1 = w.failAt
    THEN [w EXCEPT !.sums = @ \cup {md5Sum(bs)}, !.calls = @ + 1, !.err = TRUE,
                   !.n = 0]
    ELSE [w EXCEPT !.sums = @ \cup {md5Sum(bs)}, !.calls = @ + 1, !.err = FALSE,
                   !.n = bs.len, !.out = Append(@, bs)]

\* the writer and the statistics together
MState(w, stats) == [w |-> w, stats |-> stats]

\* `if n, err := m.writer.Write(p.Bytes()); err != nil { return } else { Count++; Size += n }`
WriteCount(st, p) ==
    LET w2 == WriterWrite(st.w, p) IN
    IF w2.err
    THEN MState(w2, st.stats)
    ELSE MState(w2, [st.stats EXCEPT !.Count = @ + 1, !.Size = @ + w2.n])

\* the same for the packets ps in order, up to the first error; done is how many
\* packets were taken from ps
RECURSIVE WriteAll(_, _, _)
WriteAll(st, ps, done) ==
    IF ps = << >> THEN [st |-> st, done |-> done]
    ELSE LET st2 == WriteCount(st, Head(ps)) IN
         IF st2.w.err THEN [st |-> st2, done |-> done + 1]
         ELSE WriteAll(st2, Tail(ps), done + 1)

\* m.scanUntil(t, queue): the packets received while their timestamp is t, the
\* packet after them (Nil when the channel is closed) and what is left to deliver
RECURSIVE scanUntil(_, _)
scanUntil(t, queue) ==
    IF queue = << >> THEN [ps |-> << >>, p |-> Nil, rest |-> << >>]
    ELSE IF Head(queue).ts = t
    THEN LET r == scanUntil(t, Tail(queue)) IN [r EXCEPT !.ps = <<Head(queue)>> \o @]
    ELSE [ps |-> << >>, p |-> Head(queue), rest |-> Tail(queue)]

\* TMPacket.Less
Less(p, q) == p.seq < q.seq

\* the orders sort.Slice(ps, Less) may leave ps in: no packet before one that
\* is Less than it (the sort is not stable)
Perms(n) == {f \in [1..n -> 1..n] : \A i, j \in 1..n : i # j => f[i] # f[j]}
SortedBy(ps) ==
    {[i \in 1..Len(ps) |-> ps[f[i]]] : f \in
        {g \in Perms(Len(ps)) :
            \A i, j \in 1..Len(ps) : i < j => ~Less(ps[g[j]], ps[g[i]])}}

\* the outcome of one turn of the loop of Merge
Turn(pc, p0, p1, src, tgt, st) ==
    [pc |-> pc, p0 |-> p0, p1 |-> p1, src |-> src, tgt |-> tgt, st |-> st]

\* `return ms, m.drain(p, queue, ms)`: the packet in hand, if any, then every
\* packet still to come on queue is written, with no rogue test
Drained(st, p, queue, fromSrc, other) ==
    LET ps   == (IF p = Nil THEN << >> ELSE <<p>>) \o queue
        r    == WriteAll(st, ps, 0)
        k    == r.done - (IF p = Nil THEN 0 ELSE 1)
        rest == SubSeq(queue, k + 1, Len(queue))
    IN  Turn(IF r.st.w.err THEN "error" ELSE "done", Nil, Nil,
             IF fromSrc THEN rest ELSE other, IF fromSrc THEN other ELSE rest, r.st)

Become(n) ==
    /\ mPc' = n.pc
    /\ mP0' = n.p0
    /\ mP1' = n.p1
    /\ mSrc' = n.src
    /\ mTgt' = n.tgt
    /\ mW' = n.st.w
    /\ mStats' = n.st.stats
    /\ UNCHANGED <<mIn, mLow>>
    /\ UNCHANGED notMerge

\* a rogue packet that is dropped without being counted
RoguedUncounted(st) == st

\* `ms.Rogue++`
Rogued(st) == MState(st.w, [st.stats EXCEPT !.Rogue = @ + 1])

\* the start of Merge: scanPackets and the window
MergeStart ==
    /\ mPc = "start"
    /\ LET p0 == IF mSrc = << >> THEN Nil ELSE Head(mSrc)
           p1 == IF mTgt = << >> THEN Nil ELSE Head(mTgt)
       IN  /\ mP0' = p0
           /\ mP1' = p1
           /\ mSrc' = IF mSrc = << >> THEN mSrc ELSE Tail(mSrc)
           /\ mTgt' = IF mTgt = << >> THEN mTgt ELSE Tail(mTgt)
           /\ IF p1 = Nil
              THEN \* p1.Timestamp() on a nil Packet: nil pointer dereference
                   mPc' = "panic" /\ mLow' = mLow
              ELSE mPc' = "loop" /\ mLow' = Truncate(p1.ts, Five)
    /\ UNCHANGED <<mIn, mStats, mW>>
    /\ UNCHANGED notMerge

\* a turn with one side drained: the other side is drained and Merge returns
MergeDrain ==
    /\ mPc = "loop"
    /\ mP0 = Nil \/ mP1 = Nil
    /\ Become(IF mP0 = Nil
              THEN Drained(MState(mW, mStats), mP1, mTgt, FALSE, mSrc)
              ELSE Drained(MState(mW, mStats), mP0, mSrc, TRUE, mTgt))

\* a turn with a rogue packet in hand: it is counted and the next one received
MergeRogue ==
    /\ mPc = "loop" /\ mP0 # Nil /\ mP1 # Nil
    /\ isRogue(mP0.ts, mLow, mLow + Five) \/ isRogue(mP1.ts, mLow, mLow + Five)
    /\ LET st == Rogued(MState(mW, mStats)) IN
       Become(IF isRogue(mP0.ts, mLow, mLow + Five)
              THEN IF mSrc = << >>
                   THEN Drained(st, mP1, mTgt, FALSE, mSrc)
                   ELSE Turn("loop", Head(mSrc), mP1, Tail(mSrc), mTgt, st)
              ELSE IF mTgt = << >>
                   THEN Drained(st, mP0, mSrc, TRUE, mTgt)
                   ELSE Turn("loop", mP0, Head(mTgt), mSrc, Tail(mTgt), st))

\* a turn with two packets of one timestamp: all packets of that timestamp of
\* both sides are collected, sorted and written
MergeTie ==
    /\ mPc = "loop" /\ mP0 # Nil /\ mP1 # Nil
    /\ ~isRogue(mP0.ts, mLow, mLow + Five) /\ ~isRogue(mP1.ts, mLow, mLow + Five)
    /\ mP0.ts = mP1.ts
    /\ LET a == scanUntil(mP0.ts, mSrc)
           b == scanUntil(mP1.ts, mTgt)
       IN  \E ps \in SortedBy(<<mP0, mP1>> \o a.ps \o b.ps) :
             LET r == WriteAll(MState(mW, mStats), ps, 0) IN
             Become(Turn(IF r.st.w.err THEN "error"
                         ELSE IF a.p = Nil /\ b.p = Nil THEN "done" ELSE "loop",
                         a.p, b.p, a.rest, b.rest, r.st))

\* a turn with two packets of different timestamps: the earlier one is written
\* and the next packet of its side received
MergeEarlier ==
    /\ mPc = "loop" /\ mP0 # Nil /\ mP1 # Nil
    /\ ~isRogue(mP0.ts, mLow, mLow + Five) /\ ~isRogue(mP1.ts, mLow, mLow + Five)
    /\ mP0.ts # mP1.ts
    /\ LET src0 == mP0.ts < mP1.ts
           st   == WriteCount(MState(mW, mStats), IF src0 THEN mP0 ELSE mP1)
       IN  Become(IF st.w.err THEN Turn("error", mP0, mP1, mSrc, mTgt, st)
                  ELSE IF src0
                  THEN IF mSrc = << >>
                       THEN Drained(st, mP1, mTgt, FALSE, mSrc)
                       ELSE Turn("loop", Head(mSrc), mP1, Tail(mSrc), mTgt, st)
                  ELSE IF mTgt = << >>
                       THEN Drained(st, mP0, mSrc, TRUE, mTgt)
                       ELSE Turn("loop", mP0, Head(mTgt), mSrc, Tail(mTgt), st))

IdleMerge ==
    /\ mPc = "none"
    /\ mIn = << >>
    /\ mSrc = << >>
    /\ mTgt = << >>
    /\ mP0 = Nil
    /\ mP1 = Nil
    /\ mLow = 0
    /\ mStats = [Rogue |-> 0, Count |-> 0, Size |-> 0]
    /\ mW = NewWriter(0)

\* NewMerger(w).Merge(NewReader(source, d), NewReader(target, d), span) is called
InitMerge ==
    /\ mPc = "start"
    /\ mIn \in SeqsUpTo(MPackets, MaxIn) \X SeqsUpTo(MPackets, MaxIn)
    /\ mSrc = mIn[1]
    /\ mTgt = mIn[2]
    /\ mP0 = Nil
    /\ mP1 = Nil
    /\ mLow = 0
    /\ mStats = [Rogue |-> 0, Count |-> 0, Size |-> 0]
    /\ \E k \in 0..MaxFailAt : mW = NewWriter(k)

NextMerge ==
    \/ MergeStart
    \/ MergeDrain
    \/ MergeRogue
    \/ MergeTie
    \/ MergeEarlier

\* ------------------------------------------------------------------------
\* Merger claims
\* ------------------------------------------------------------------------
CountIf(ps, P(_)) == Cardinality({i \in 1..Len(ps) : P(ps[i])})

NoRepeat(ps) == \A i, j \in 1..Len(ps) : i # j => ps[i] # ps[j]

OutOfWindow(p) == isRogue(p.ts, mLow, mLow + Five)

\* C5: merger no-loss. When Merge completes without a write error, Rogue + Count
\* is the number of packets of the two inputs, and no record is twice in the
\* output.
C5_MergerNoLoss ==
    mPc = "done" =>
        /\ mStats.Rogue + mStats.Count = Len(mIn[1]) + Len(mIn[2])
        /\ NoRepeat(mW.out)

\* a merge that completed after counting a rogue packet and dropping a repeat
C5_Witness ==
    /\ mPc = "done"
    /\ mStats.Rogue > 0
    /\ mStats.Count > Len(mW.out)
    /\ Len(mW.out) > 0

\* C6: merger rogue rejection. Every packet written has its timestamp in
\* [low, high), and when Merge completes every input packet outside [low, high)
\* has been counted in Rogue.
C6_RogueRejected ==
    mPc \in {"loop", "done", "error"} =>
        /\ \A i \in 1..Len(mW.out) : ~OutOfWindow(mW.out[i])
        /\ mPc = "done" =>
             mStats.Rogue = CountIf(mIn[1], OutOfWindow) + CountIf(mIn[2], OutOfWindow)


\* ------------------------------------------------------------------------
\* Deduplicating writer: NoDuplicate(w) and its Write, called on its own
\* ------------------------------------------------------------------------
\* the records a caller writes: bytes told apart by id, of len bytes
DRecords == {[id |-> i, len |-> 10 + i] : i \in 1..MaxKinds}

\* ws.Write(bs); the sink takes the bytes or fails, as it pleases
DedupWrite ==
    /\ Len(dLog) < MaxWrites
    /\ \E bs \in DRecords, fails \in BOOLEAN :
         LET w == [dW EXCEPT !.failAt = IF fails THEN dW.calls + 1 ELSE 0] IN
         /\ dW' = WriterWrite(w, bs)
         /\ dLog' = Append(dLog, bs)
         /\ dBefore' = dW.out
         /\ dSinkFailed' = (dSinkFailed \/ dW'.err)
    /\ UNCHANGED notDedup

IdleDedup ==
    /\ dW = NewWriter(0)
    /\ dLog = << >>
    /\ dBefore = << >>
    /\ dSinkFailed = FALSE

\* NoDuplicate(w) has been called
InitDedup == IdleDedup

NextDedup == DedupWrite

\* ------------------------------------------------------------------------
\* Deduplicating writer claims
\* ------------------------------------------------------------------------
\* the first occurrence of each element of s, in the order of s
RECURSIVE Firsts(_)
Firsts(s) ==
    IF s = << >> THEN << >>
    ELSE LET f == Firsts(SubSeq(s, 1, Len(s) - 1))
             l == s[Len(s)]
         IN  IF \E i \in 1..Len(f) : f[i] = l THEN f ELSE Append(f, l)

\* the last Write was handed a record that had been written before
LastRepeats == dLog # << >> /\ \E i \in 1..(Len(dLog) - 1) : dLog[i] = dLog[Len(dLog)]

\* C7: deduplicator. After any sequence of writes to a sink that takes them, the
\* sink holds the first occurrence of each distinct record, in the order of the
\* first occurrences; a Write of a record already written returns the full
\* length and no error, and leaves the sink as it was.
C7_Dedup ==
    ~dSinkFailed =>
        /\ dW.out = Firsts(dLog)
        /\ LastRepeats =>
             /\ dW.n = dLog[Len(dLog)].len
             /\ ~dW.err
             /\ dW.out = dBefore

\* three writes, the last one of a record already written, after two different ones
C7_Witness ==
    /\ ~dSinkFailed
    /\ Len(dLog) >= 3
    /\ LastRepeats
    /\ Len(dW.out) >= 2

\* ------------------------------------------------------------------------
\* Mixing reader: MixReader(rs...) and mixReaders.Read
\* ------------------------------------------------------------------------
\* Scanner.Bytes() before the first Scan
NoToken == [id |-> 0, k |-> 0, len |-> 0]

\* the k-th record of scanner id
Token(id, k) == [id |-> id, k |-> k, len |-> 10 + k]

\* a Scanner over count records: pos of them scanned, tok is Bytes()
NewScanner(id, count) == [id |-> id, count |-> count, pos |-> 0, tok |-> NoToken]

\* `copy(bs, m.rs[ix].Bytes()), m.rs[ix].Err()` with the buffer of io.CopyBuffer
ReadResult(tok) == [rec |-> tok, n |-> Min(MaxBufferSize, tok.len), err |-> "nil"]

\* s without its i-th element: append(m.rs[:ix], m.rs[ix+1:]...)
Remove(s, i) == SubSeq(s, 1, i - 1) \o SubSeq(s, i + 1, Len(s))

\* mixReaders.Read(bs); ix is rand.Intn(len(m.rs)), counted from 1
MixRead ==
    /\ xPc = "open"
    /\ \E ix \in 1..Len(xRs) :
         LET s == xRs[ix] IN
         IF s.pos < s.count
         THEN \* Scan() is true
              LET t == Token(s.id, s.pos + 1) IN
              /\ xRs' = [xRs EXCEPT ![ix] = [s EXCEPT !.pos = @ + 1, !.tok = t]]
              /\ xOut' = Append(xOut, ReadResult(t))
              /\ xPc' = xPc
         ELSE IF Len(xRs) > 1
         THEN \* the scanner is dropped, ix = (ix + 1) % len(m.rs)
              LET rs2 == Remove(xRs, ix)
                  jx  == (ix % Len(rs2)) + 1
              IN  /\ xRs' = rs2
                  /\ xOut' = Append(xOut, ReadResult(rs2[jx].tok))
                  /\ xPc' = xPc
         ELSE /\ xRs' = xRs
              /\ xOut' = Append(xOut, [rec |-> NoToken, n |-> 0, err |-> "EOF"])
              /\ xPc' = "eof"
    /\ UNCHANGED xIn
    /\ UNCHANGED notMix

IdleMix ==
    /\ xPc = "none"
    /\ xIn = << >>
    /\ xRs = << >>
    /\ xOut = << >>

\* MixReader(rs...) has been called with one scanner or more
InitMix ==
    /\ xPc = "open"
    /\ \E k \in 1..MaxScanners : xIn \in [1..k -> 0..MaxTokens]
    /\ xRs = [i \in 1..Len(xIn) |-> NewScanner(i, xIn[i])]
    /\ xOut = << >>

NextMix == MixRead

\* ------------------------------------------------------------------------
\* Mixing reader claims
\* ------------------------------------------------------------------------
\* the i-th Read returned a record
Returned(i) == xOut[i].err = "nil"

\* C8: mix reader. Every Read that returns no error returns, in full, the next
\* record not yet returned of one of the scanners, and Read returns io.EOF only
\* when every record of every scanner has been returned.
C8_MixNext ==
    /\ \A i \in 1..Len(xOut) :
         Returned(i) =>
           LET r == xOut[i].rec IN
           /\ r # NoToken
           /\ xOut[i].n = r.len
           /\ \A j \in 1..(i - 1) : xOut[j].rec # r
           /\ \A k \in 1..(r.k - 1) : \E j \in 1..(i - 1) : xOut[j].rec = Token(r.id, k)
    /\ xPc = "eof" =>
         \A id \in 1..Len(xIn) : \A k \in 1..xIn[id] :
           \E j \in 1..Len(xOut) : Returned(j) /\ xOut[j].rec = Token(id, k)

\* ------------------------------------------------------------------------
\* Walk: the goroutine of Walk, the goroutine of Reader.packets of the file
\* that is open, and the consumer of the channel q. Both channels are
\* unbuffered: a send and its receive are one step
\* ------------------------------------------------------------------------
\* paths are strings; a character is a number, "" is << >>
Paths == {<< >>, <<1, 2>>, <<2>>}

\* what Reader.Next makes of a record: a packet, or the error of the decoder
Outcomes == {"ok", "ErrSkip", "ErrShortBuffer"}

\* a path names a file of records, or nothing that can be opened
Files == [exists : {TRUE}, recs : SeqsUpTo(Outcomes, MaxFileRecs)]
            \cup {[exists |-> FALSE, recs |-> << >>]}

\* a < b for strings
RECURSIVE LexLess(_, _)
LexLess(a, b) ==
    IF b = << >> THEN FALSE
    ELSE IF a = << >> THEN TRUE
    ELSE IF Head(a) # Head(b) THEN Head(a) < Head(b)
    ELSE LexLess(Tail(a), Tail(b))

\* paths as handed on, in the order given
Unsorted(paths) == paths

\* sort.Strings(paths)
RECURSIVE SortStrings(_)
SortStrings(paths) ==
    IF paths = << >> THEN << >>
    ELSE LET rest == SortStrings(Tail(paths))
             p    == Head(paths)
             k    == Cardinality({i \in 1..Len(rest) : LexLess(rest[i], p)})
         IN  SubSeq(rest, 1, k) \o <<p>> \o SubSeq(rest, k + 1, Len(rest))

\* the idx-th record of the file at path, decoded
WPacket(path, idx) == [kind |-> "pkt", path |-> path, idx |-> idx]

\* the file that is open
Current == CHOOSE p \in wOpen : TRUE

\* the goroutine of Walk starts: sort.Strings(paths)
WalkStart ==
    /\ wPc = "start"
    /\ wTodo' = SortStrings(wPaths)
    /\ wPc' = "loop"
    /\ UNCHANGED <<wPaths, wFs, wOpen, wPkt, rdPc, rdPos, rdPkt, cPc, cGot>>
    /\ UNCHANGED notWalk

\* `for _, p := range paths`: "" is passed over, a path that cannot be opened
\* ends the goroutine, a file is opened and handed to a new Reader; after the
\* last path q is closed
WalkPath ==
    /\ wPc = "loop"
    /\ IF wTodo = << >>
       THEN wPc' = "closed" /\ UNCHANGED <<wTodo, wOpen, rdPc>>
       ELSE /\ wTodo' = Tail(wTodo)
            /\ IF Head(wTodo) = << >>
               THEN UNCHANGED <<wPc, wOpen, rdPc>>
               ELSE IF ~wFs[Head(wTodo)].exists
               THEN wPc' = "closed" /\ UNCHANGED <<wOpen, rdPc>>
               ELSE /\ wOpen' = wOpen \cup {Head(wTodo)}
                    /\ rdPc' = "next"
                    /\ wPc' = "range"
    /\ UNCHANGED <<wPaths, wFs, wPkt, rdPos, rdPkt, cPc, cGot>>
    /\ UNCHANGED notWalk

\* Reader.packets, one turn of its loop: io.EOF closes r.queue, a packet is
\* held for r.queue, any other error is passed over
ReaderPackets ==
    /\ rdPc = "next"
    /\ LET recs == wFs[Current].recs IN
       IF rdPos = Len(recs)
       THEN rdPc' = "closed" /\ UNCHANGED <<rdPos, rdPkt>>
       ELSE /\ rdPos' = rdPos + 1
            /\ IF recs[rdPos + 1] = "ok"
               THEN rdPc' = "send" /\ rdPkt' = WPacket(Current, rdPos + 1)
               ELSE UNCHANGED <<rdPc, rdPkt>>
    /\ UNCHANGED <<wPaths, wFs, wPc, wTodo, wOpen, wPkt, cPc, cGot>>
    /\ UNCHANGED notWalk

\* `r.queue <- p` meets `for p := range rt.Packets()`
QueueSend ==
    /\ rdPc = "send"
    /\ wPc = "range"
    /\ wPkt' = rdPkt
    /\ wPc' = "send"
    /\ rdPkt' = NoPacket
    /\ rdPc' = "next"
    /\ UNCHANGED <<wPaths, wFs, wTodo, wOpen, rdPos, cPc, cGot>>
    /\ UNCHANGED notWalk

\* r.queue is closed: the range ends, the deferred r.Close() runs
WalkRangeEnd ==
    /\ wPc = "range"
    /\ rdPc = "closed"
    /\ wOpen' = {}
    /\ rdPc' = "none"
    /\ rdPos' = 0
    /\ wPc' = "loop"
    /\ UNCHANGED <<wPaths, wFs, wTodo, wPkt, rdPkt, cPc, cGot>>
    /\ UNCHANGED notWalk

\* `q <- p` meets the receive of the consumer
WalkSend ==
    /\ wPc = "send"
    /\ cPc = "recv"
    /\ cGot' = Append(cGot, wPkt)
    /\ wPkt' = NoPacket
    /\ wPc' = "range"
    /\ UNCHANGED <<wPaths, wFs, wTodo, wOpen, rdPc, rdPos, rdPkt, cPc>>
    /\ UNCHANGED notWalk

\* the consumer returns from its loop over q before q is closed
ConsumerStop ==
    /\ cPc = "recv"
    /\ wPc # "closed"
    /\ cPc' = "stopped"
    /\ UNCHANGED <<wPaths, wFs, wPc, wTodo, wOpen, wPkt, rdPc, rdPos, rdPkt, cGot>>
    /\ UNCHANGED notWalk

\* q is closed: the loop of the consumer ends
ConsumerEnd ==
    /\ cPc = "recv"
    /\ wPc = "closed"
    /\ cPc' = "ended"
    /\ UNCHANGED <<wPaths, wFs, wPc, wTodo, wOpen, wPkt, rdPc, rdPos, rdPkt, cGot>>
    /\ UNCHANGED notWalk

IdleWalk ==
    /\ wPaths = << >>
    /\ wFs = << >>
    /\ wPc = "none"
    /\ wTodo = << >>
    /\ wOpen = {}
    /\ wPkt = NoPacket
    /\ rdPc = "none"
    /\ rdPos = 0
    /\ rdPkt = NoPacket
    /\ cPc = "none"
    /\ cGot = << >>

\* Walk(paths, d) has been called with a decoder, and its channel is ranged over
InitWalk ==
    /\ wPaths \in SeqsUpTo(Paths, MaxPaths)
    /\ wFs \in [Paths \ {<< >>} -> Files]
    /\ \A p \in Paths \ {<< >>} :
         (\A i \in 1..Len(wPaths) : wPaths[i] # p) => ~wFs[p].exists
    /\ wPc = "start"
    /\ wTodo = << >>
    /\ wOpen = {}
    /\ wPkt = NoPacket
    /\ rdPc = "none"
    /\ rdPos = 0
    /\ rdPkt = NoPacket
    /\ cPc = "recv"
    /\ cGot = << >>

\* the steps of the two producing goroutines
Producers ==
    \/ WalkStart
    \/ WalkPath
    \/ ReaderPackets
    \/ QueueSend
    \/ WalkRangeEnd
    \/ WalkSend

NextWalk ==
    \/ WalkStart
    \/ WalkPath
    \/ ReaderPackets
    \/ QueueSend
    \/ WalkRangeEnd
    \/ WalkSend
    \/ ConsumerStop
    \/ ConsumerEnd

\* ------------------------------------------------------------------------
\* Walk claims
\* ------------------------------------------------------------------------
\* s holds the strings of t, each as often as t does
SameStrings(s, t) ==
    \A p \in Paths : Cardinality({i \in 1..Len(s) : s[i] = p})
                       = Cardinality({i \in 1..Len(t) : t[i] = p})

\* the paths handed to Walk in lexicographic order
InOrder ==
    CHOOSE s \in SeqsUpTo(Paths, Len(wPaths)) :
        /\ SameStrings(s, wPaths)
        /\ \A i, j \in 1..Len(s) : i < j => ~LexLess(s[j], s[i])

\* the packets of the file at path, in file order
RECURSIVE Decoded(_, _)
Decoded(path, n) ==
    IF n = 0 THEN << >>
    ELSE Decoded(path, n - 1) \o
         (IF wFs[path].recs[n] = "ok" THEN <<WPacket(path, n)>> ELSE << >>)

\* what a walk over the paths ps emits: nothing for "", nothing more after a
\* path that cannot be opened
RECURSIVE Emitted(_)
Emitted(ps) ==
    IF ps = << >> THEN << >>
    ELSE IF Head(ps) = << >> THEN Emitted(Tail(ps))
    ELSE IF ~wFs[Head(ps)].exists THEN << >>
    ELSE Decoded(Head(ps), Len(wFs[Head(ps)].recs)) \o Emitted(Tail(ps))

\* C9: walk ordering. The consumer receives, for the paths in lexicographic
\* order, the packets of each file that decode, in file order; a record that
\* fails with ErrSkip or ErrShortBuffer is left out and the walk goes on.
C9_WalkOrdering ==
    wPc # "none" =>
        /\ IsPrefix(cGot, Emitted(InOrder))
        /\ wPc = "closed" => cGot = Emitted(InOrder)

\* a walk that has ended, over paths given out of order, of a file whose first
\* record was skipped and whose second one was a packet
C9_Witness ==
    /\ wPc = "closed"
    /\ wPaths # InOrder
    /\ Len(cGot) >= 2
    /\ \E i \in 1..Len(cGot) : cGot[i].idx = 2
         /\ wFs[cGot[i].path].recs[1] \in {"ErrSkip", "ErrShortBuffer"}

\* C10: cancellation. Once the consumer has stopped receiving, the producing
\* goroutines have ended with every file closed, or one of them can still take
\* a step: none is left blocked on a send for ever.
C10_Cancellation ==
    cPc = "stopped" =>
        \/ wPc = "closed" /\ rdPc = "none" /\ wOpen = {}
        \/ ENABLED Producers

\* ------------------------------------------------------------------------
\* Time-keyed archive: timePath, TimePath, ListPaths and runDispatch. A time
\* is a number of seconds after 1970-01-01T00:00:00Z
\* ------------------------------------------------------------------------
IsLeap(y) == (y % 4 = 0 /\ y % 100 # 0) \/ y % 400 = 0
DaysIn(y) == IF IsLeap(y) THEN 366 ELSE 365
MonthDays(y, m) ==
    IF m = 2 THEN (IF IsLeap(y) THEN 29 ELSE 28)
    ELSE IF m \in {4, 6, 9, 11} THEN 30 ELSE 31

\* days from 1970-01-01 to the first day of year y
RECURSIVE DaysToYear(_)
DaysToYear(y) == IF y = 1970 THEN 0 ELSE DaysToYear(y - 1) + DaysIn(y - 1)

\* days from the first day of year y to the first day of its month m
RECURSIVE DaysToMonth(_, _)
DaysToMonth(y, m) == IF m = 1 THEN 0 ELSE DaysToMonth(y, m - 1) + MonthDays(y, m - 1)

\* time.Date(y, m, d, hh, mm, ss, 0, time.UTC)
Date(y, m, d, hh, mm, ss) ==
    (DaysToYear(y) + DaysToMonth(y, m) + (d - 1)) * 86400 + hh * 3600 + mm * 60 + ss

UNIX == Date(1970, 1, 1, 0, 0, 0)
GPS == Date(1980, 1, 6, 0, 0, 0)
FiveSeconds == Five * 60     \* Five, in seconds

\* t.Year() and t.YearDay(): the year that holds day number days, from year y on
RECURSIVE YearAndDay(_, _)
YearAndDay(days, y) ==
    IF days < DaysIn(y) THEN [year |-> y, yday |-> days + 1]
    ELSE YearAndDay(days - DaysIn(y), y + 1)

Year(t) == YearAndDay(t \div 86400, 1970).year
YearDay(t) == YearAndDay(t \div 86400, 1970).yday
Hour(t) == (t % 86400) \div 3600
Minute(t) == (t % 3600) \div 60

\* timePath(dir, t): dir/YYYY/DDD/HH; the file name is empty for a directory
timePath(t) == [dir |-> <<Year(t), YearDay(t), Hour(t)>>, name |-> << >>]

\* TimePath(dir, t): timePath(dir, t)/rt_MM_{MM+4}.dat with MM = t.Minute()
TimePath(t) == [timePath(t) EXCEPT !.name = <<Minute(t), Minute(t) + 4>>]

\* the key of runDispatch taken without truncating
DispatchKeyExact(ts) == ts + (GPS - UNIX)

\* `p.Timestamp().Add(delta).Truncate(Five)`
DispatchKey(ts) == Truncate(ts + (GPS - UNIX), FiveSeconds)

\* the adjusted times of the packets of a walk
Adjusted ==
    {Date(2024, 3, 12, 13, 45, 0), Date(2024, 3, 12, 13, 47, 2),
     Date(2024, 3, 12, 13, 49, 59), Date(2024, 12, 31, 23, 59, 59)}

\* runDispatch, one turn of its loop over Walk: the file of the key is opened
\* on its first use, created if need be, and the bytes of the packet appended;
\* a failing OpenFile or Write ends runDispatch
DispatchPacket ==
    /\ tpPc = "run"
    /\ Len(tpLog) < MaxDispatch
    /\ \E a \in Adjusted, fails \in BOOLEAN :
         LET ts   == a - (GPS - UNIX)
             t    == DispatchKey(ts)
             file == IF t \in DOMAIN tpWs THEN tpWs[t] ELSE TimePath(t)
             old  == IF file \in DOMAIN tpFs THEN tpFs[file] ELSE << >>
         IN  IF fails
             THEN /\ tpPc' = "error"
                  /\ UNCHANGED <<tpFs, tpWs, tpLog>>
             ELSE /\ tpWs' = [k \in DOMAIN tpWs \cup {t} |-> IF k = t THEN file ELSE tpWs[k]]
                  /\ tpFs' = [f \in DOMAIN tpFs \cup {file} |->
                                IF f = file THEN Append(old, ts) ELSE tpFs[f]]
                  /\ tpLog' = Append(tpLog, [ts |-> ts, file |-> file])
                  /\ tpPc' = tpPc
    /\ UNCHANGED tpList
    /\ UNCHANGED notTimePath

\* ListPaths of src/walk.go: a step of five minutes, the path of each step
\* kept when it is a regular file
RECURSIVE ListFiles(_, _)
ListFiles(fd, td) ==
    IF ~(fd < td) THEN << >>
    ELSE (IF TimePath(fd) \in DOMAIN tpFs THEN <<TimePath(fd)>> ELSE << >>)
         \o ListFiles(fd + FiveSeconds, td)

\* ListPaths of src/cmd/meex/walk.go: a step of one hour, the directory of
\* each step
RECURSIVE ListHours(_, _)
ListHours(fd, td) ==
    IF ~(fd < td) THEN << >>
    ELSE <<timePath(fd)>> \o ListHours(fd + 3600, td)

\* ListPaths(dir, fd, td) is called, in one of its two versions
ListPathsCall ==
    /\ tpPc \in {"run", "error"}
    /\ \E fd \in Adjusted, hourly \in BOOLEAN :
         LET td == fd + FiveSeconds + 1 IN
         tpList' = [fd |-> fd, td |-> td, hourly |-> hourly,
                    ds |-> IF hourly THEN ListHours(fd, td) ELSE ListFiles(fd, td)]
    /\ UNCHANGED <<tpPc, tpFs, tpWs, tpLog>>
    /\ UNCHANGED notTimePath

NoList == [fd |-> 0, td |-> 0, hourly |-> FALSE, ds |-> << >>]

IdleTimePath ==
    /\ tpPc = "none"
    /\ tpFs = << >>
    /\ tpWs = << >>
    /\ tpLog = << >>
    /\ tpList = NoList

\* runDispatch has made its data directory and starts to range over Walk
InitTimePath ==
    /\ tpPc = "run"
    /\ tpFs = << >>
    /\ tpWs = << >>
    /\ tpLog = << >>
    /\ tpList = NoList

NextTimePath ==
    \/ DispatchPacket
    \/ ListPathsCall

\* ------------------------------------------------------------------------
\* Time-keyed archive claims
\* ------------------------------------------------------------------------
\* the adjusted time of the i-th packet written
AdjustedAt(i) == tpLog[i].ts + (GPS - UNIX)

\* the start of the five-minute bucket that holds the time a
Bucket(a) == a - (a % 300)

\* root/YYYY/DDD/HH/rt_MM_NN.dat
ArchiveFile(y, ddd, hh, mm, nn) == [dir |-> <<y, ddd, hh>>, name |-> <<mm, nn>>]

\* the packets written whose adjusted time lies in the bucket of file f
\* are, in order, the content of f
RECURSIVE WrittenTo(_, _)
WrittenTo(f, n) ==
    IF n = 0 THEN << >>
    ELSE WrittenTo(f, n - 1) \o
         (IF TimePath(Bucket(AdjustedAt(n))) = f THEN <<tpLog[n].ts>> ELSE << >>)

Placed ==
    /\ \A i \in 1..Len(tpLog) :
         TimePath(Bucket(AdjustedAt(i))) \in DOMAIN tpFs
    /\ \A f \in DOMAIN tpFs : tpFs[f] = WrittenTo(f, Len(tpLog))

\* the file that holds the packet of scenario S6
S6File ==
    CHOOSE f \in DOMAIN tpFs :
        \E i \in 1..Len(tpFs[f]) :
            tpFs[f][i] + (GPS - UNIX) = Date(2024, 3, 12, 13, 47, 2)

S6Written ==
    \E i \in 1..Len(tpLog) : AdjustedAt(i) = Date(2024, 3, 12, 13, 47, 2)

\* C11 as stated: dispatcher placement. Every packet is appended to the
\* TimePath file of truncate(timestamp + GPS_MINUS_UNIX, 5 min), and the packet
\* of adjusted time 2024-03-12T13:47:02Z is in <root>/2024/072/13/rt_47_51.dat.
C11_PlacementS6 ==
    tpPc # "none" =>
        /\ Placed
        /\ S6Written => S6File = ArchiveFile(2024, 72, 13, 47, 51)

\* C11 amended: dispatcher placement. Every packet is appended to the TimePath
\* file of truncate(timestamp + GPS_MINUS_UNIX, 5 min), and the packet of
\* adjusted time 2024-03-12T13:47:02Z is in <root>/2024/072/13/rt_45_49.dat.
C11_Placement ==
    tpPc # "none" =>
        /\ Placed
        /\ S6Written => S6File = ArchiveFile(2024, 72, 13, 45, 49)

\* the packet of S6 was written after another packet of its bucket
C11_Witness ==
    /\ S6Written
    /\ Len(tpFs[S6File]) >= 2
    /\ tpFs[S6File][1] + (GPS - UNIX) # Date(2024, 3, 12, 13, 47, 2)

\* C12: time-path round trip. After the dispatcher has written a packet of
\* adjusted time t, ListPaths(root, t, t + e), e one second more than five
\* minutes, includes the file the packet was written to.
C12_TimePathRoundTrip ==
    \A i \in 1..Len(tpLog) :
        (tpList # NoList /\ tpList.fd = AdjustedAt(i) /\ tpList.td = tpList.fd + 301) =>
            \E k \in 1..Len(tpList.ds) : tpList.ds[k] = tpLog[i].file

\* ------------------------------------------------------------------------
\* VMU decoding: decodeVMU, VMUPacket.Error, VMUPacket.Data, DecodeHRD, and
\* Reader.packets with the HRD decoder. A record is kept as a frame: its
\* length and its non-zero bytes by position
\* ------------------------------------------------------------------------
HRDLHeaderLen == 18
VMUHeaderLen == 24
ChannelVic1 == 1
ChannelVic2 == 2
ChannelLRSD == 3
CommonLen == 24     \* the fields decodeTable reads before the UPI
ImageLen == 20      \* the fields of VMUImageHeader
UPILen == 32

\* f without its zero bytes
NonZero(f) == [i \in {j \in DOMAIN f : f[j] # 0} |-> f[i]]

VLens == {41, 46, 100, 120}     \* record lengths, size prefix included
VErrBytes == {0, 1}             \* bytes of HRDLHeader.Error
VChannels == {0, 1, 2, 3, 4}    \* VMUHeader.Channel
VByteVals == {0, 5}             \* a byte of VMUHeader.Sequence
VSumVals == 0..9                \* the low byte of the trailing word

\* the records handed to the decoders
VRecords ==
    {[len |-> n,
      nz  |-> NonZero([i \in {4, 5, 26, 30, n - 4} |->
                  IF i = 4 THEN e0 ELSE IF i = 5 THEN e1 ELSE IF i = 26 THEN ch
                  ELSE IF i = 30 THEN b ELSE s])] :
        n \in VLens, e0 \in VErrBytes, e1 \in VErrBytes, ch \in VChannels,
        b \in VByteVals, s \in VSumVals}

\* the sum of the bytes of nz at the positions from..(to - 1)
RECURSIVE SumBytes(_, _, _)
SumBytes(nz, from, to) ==
    LET S == {i \in DOMAIN nz : i >= from /\ i < to} IN
    IF S = {} THEN 0
    ELSE LET i == CHOOSE j \in S : TRUE IN nz[i] + SumBytes(nz, i + 1, to) +
             SumBytes(nz, from, i)

\* a decoder that stops at the first failed check
VMUFailure(err) == [p |-> Nil, err |-> err]

\* decodeVMU(bs) of part_013
decodeVMU(bs) ==
    IF bs.len < HRDLHeaderLen + VMUHeaderLen THEN VMUFailure("ErrShortBuffer")
    ELSE [p |-> [kind    |-> "VMU",
                 Error   |-> At(bs.nz, 4) * 256 + At(bs.nz, 5),
                 Channel |-> At(bs.nz, HRDLHeaderLen + 8),
                 Sum     |-> Uint32LE(At(bs.nz, bs.len - 4), At(bs.nz, bs.len - 3),
                                      At(bs.nz, bs.len - 2), At(bs.nz, bs.len - 1)),
                 Control |-> SumBytes(bs.nz, HRDLHeaderLen + 8, bs.len - 4),
                 len     |-> bs.len],
          err |-> "nil"]

\* VMUPacket.Error() of part_013
VMUError(v) == IF v.Error # 0 THEN TRUE ELSE v.Sum # v.Control

\* VMUPacket.Error() of src/scan.go
VMUErrorScan(v) == v.Error # 0

\* decodeImage and decodeTable: the fields are read with errors ignored, the
\* UPI with io.ReadFull
decodeData(kind, avail, fields, valid) ==
    IF avail <= fields THEN [p |-> Nil, err |-> "EOF"]
    ELSE IF avail < fields + UPILen THEN [p |-> Nil, err |-> "ErrUnexpectedEOF"]
    ELSE [p |-> [kind |-> kind, Valid |-> valid], err |-> "nil"]

\* VMUPacket.Data()
VMUData(v) ==
    LET valid == v.Control = v.Sum
        avail == v.len - (HRDLHeaderLen + VMUHeaderLen)
    IN  IF v.Channel \in {ChannelVic1, ChannelVic2}
        THEN decodeData("Image", avail, CommonLen + ImageLen, valid)
        ELSE IF v.Channel = ChannelLRSD
        THEN decodeData("Table", avail, CommonLen, valid)
        ELSE [p |-> Nil, err |-> "nil"]

\* the decoder DecodeHRD() returns
DecodeHRD(bs) ==
    LET r == decodeVMU(bs) IN
    IF r.err # "nil" THEN VMUFailure(r.err) ELSE VMUData(r.p)

\* DecodeVMU() is applied to the record and Error() asked of the packet, in
\* the version of part_013 or in the one of src/scan.go
VMUDecode ==
    /\ vOp = "new"
    /\ \E impl \in {"part_013", "scan.go"} :
         LET r == decodeVMU(vRec) IN
         /\ vOp' = impl
         /\ vPkt' = r.p
         /\ vErr' = r.err
         /\ vError' = IF r.p = Nil THEN FALSE
                      ELSE IF impl = "scan.go" THEN VMUErrorScan(r.p) ELSE VMUError(r.p)
    /\ UNCHANGED <<vRec, vQueue>>
    /\ UNCHANGED notVMU

\* Reader.packets, one turn over the record with the decoder of DecodeHRD():
\* what Next returns is put on the queue when the error is nil
HRDPackets ==
    /\ vOp = "new"
    /\ LET r == DecodeHRD(vRec) IN
       /\ vOp' = "HRD"
       /\ vPkt' = r.p
       /\ vErr' = r.err
       /\ vQueue' = IF r.err = "nil" THEN Append(vQueue, r.p) ELSE vQueue
    /\ UNCHANGED <<vRec, vError>>
    /\ UNCHANGED notVMU

IdleVMU ==
    /\ vOp = "none"
    /\ vRec = [len |-> 0, nz |-> << >>]
    /\ vPkt = Nil
    /\ vErr = "nil"
    /\ vError = FALSE
    /\ vQueue = << >>

\* a record has been read and is about to be decoded
InitVMU ==
    /\ vOp = "new"
    /\ vRec \in VRecords
    /\ vPkt = Nil
    /\ vErr = "nil"
    /\ vError = FALSE
    /\ vQueue = << >>

NextVMU ==
    \/ VMUDecode
    \/ HRDPackets

\* ------------------------------------------------------------------------
\* VMU decoding claims
\* ------------------------------------------------------------------------
\* the record holds the two headers
HasHeaders == vRec.len >= 42

\* C13: unknown VMU channel. Data() on a VMU packet whose channel is not VIC1,
\* VIC2 or LRSD returns a non-nil error; it never returns a nil packet with a
\* nil error, and the HRD decoder never puts a nil packet on a packet stream.
C13_UnknownChannel ==
    vOp = "HRD" =>
        /\ (HasHeaders /\ At(vRec.nz, 26) \notin {1, 2, 3}) => vErr # "nil"
        /\ ~(vPkt = Nil /\ vErr = "nil")
        /\ \A i \in 1..Len(vQueue) : vQueue[i] # Nil

\* C14: VMU error flag. A decoded VMU packet has Error() true exactly when
\* HRH.error is not 0 or the trailing little-endian word differs from the sum
\* of the bytes in [HRDL_LEN + 8, end - 4); a checksum mismatch never makes the
\* decode fail.
C14_VMUErrorFlag ==
    (vOp \in {"part_013", "scan.go"} /\ HasHeaders) =>
        LET hrhError == At(vRec.nz, 4) # 0 \/ At(vRec.nz, 5) # 0
            sum      == At(vRec.nz, vRec.len - 4)
            control  == SumBytes(vRec.nz, 26, vRec.len - 4)
        IN  /\ vErr = "nil"
            /\ vPkt # Nil
            /\ vError <=> (hrhError \/ sum # control)

\* ------------------------------------------------------------------------
\* Seekable derived streams: Reader.indexSum, SortWith, Shuffle, JoinWith,
\* shuffler.Read and joiner.Read
\* ------------------------------------------------------------------------
\* a record of a source: its bytes, size prefix included, and whether the
\* decoder makes a packet of it
SeekRecords == [size : {5, 6}, ok : BOOLEAN]

\* caller buffers
BsLens == {4, 5, 6, MaxBufferSize}

\* Reader.indexSum over the records recs of source src, from record k on: one
\* Index for each packet received, Offset counted up by the sizes of the packets
RECURSIVE indexSum(_, _, _, _)
indexSum(src, recs, k, curr) ==
    IF k > Len(recs) THEN << >>
    ELSE IF recs[k].ok
    THEN <<[Sum |-> src, Offset |-> curr, Size |-> recs[k].size]>>
            \o indexSum(src, recs, k + 1, curr + recs[k].size)
    ELSE indexSum(src, recs, k + 1, curr)

\* the index of all sources, one after the other
RECURSIVE IndexAll(_, _)
IndexAll(srcs, k) ==
    IF k > Len(srcs) THEN << >>
    ELSE indexSum(k, srcs[k], 1, 0) \o IndexAll(srcs, k + 1)

\* the orders sort.Slice, rand.Shuffle or a SortFunc may leave the index in
Reordered(ix) == {[i \in 1..Len(ix) |-> ix[f[i]]] : f \in Perms(Len(ix))}

\* what a Read returned: n, err, and where the bytes came from
SeekResult(n, err, sum, off, lenbs, pos) ==
    [n |-> n, err |-> err, Sum |-> sum, Offset |-> off, lenbs |-> lenbs, pos |-> pos]

\* shuffler.Read(bs)
ShufflerRead ==
    /\ sImpl = "shuffler"
    /\ sLast.err # "EOF"
    /\ \E lenbs \in BsLens :
         IF sPos >= Len(sIndex)
         THEN /\ sLast' = SeekResult(0, "EOF", 0, 0, lenbs, sPos)
              /\ sPos' = sPos
         ELSE LET ix == sIndex[sPos + 1] IN
              IF lenbs < ix.Size
              THEN /\ sLast' = SeekResult(0, "ErrShortBuffer", 0, 0, lenbs, sPos)
                   /\ sPos' = sPos
              ELSE /\ sLast' = SeekResult(ix.Size, "nil", ix.Sum, ix.Offset, lenbs, sPos)
                   /\ sPos' = sPos + 1
    /\ UNCHANGED <<sImpl, sSrcs, sIndex>>
    /\ UNCHANGED notSeek

\* joiner.Read(bs)
JoinerRead ==
    /\ sImpl = "joiner"
    /\ sLast.err # "EOF"
    /\ \E lenbs \in BsLens :
         IF lenbs < MaxBufferSize
         THEN /\ sLast' = SeekResult(0, "ErrShortBuffer", 0, 0, lenbs, sPos)
              /\ sPos' = sPos
         ELSE IF sPos >= Len(sIndex)
         THEN /\ sLast' = SeekResult(0, "EOF", 0, 0, lenbs, sPos)
              /\ sPos' = sPos
         ELSE LET ix == sIndex[sPos + 1] IN
              /\ sLast' = SeekResult(ix.Size, "nil", ix.Sum, ix.Offset, lenbs, sPos)
              /\ sPos' = sPos + 1
    /\ UNCHANGED <<sImpl, sSrcs, sIndex>>
    /\ UNCHANGED notSeek

NoRead == SeekResult(0, "none", 0, 0, 0, 0)

IdleSeek ==
    /\ sImpl = "none"
    /\ sSrcs = << >>
    /\ sIndex = << >>
    /\ sPos = 0
    /\ sLast = NoRead

\* SortWith or Shuffle over one source, or JoinWith over one or two, has
\* returned its reader
InitSeek ==
    /\ sImpl \in {"shuffler", "joiner"}
    /\ sSrcs \in SeqsUpTo(SeqsUpTo(SeekRecords, MaxSeekRecs), MaxSources)
    /\ sSrcs # << >>
    /\ sImpl = "shuffler" => Len(sSrcs) = 1
    /\ sIndex \in Reordered(IndexAll(sSrcs, 1))
    /\ sPos = 0
    /\ sLast = NoRead

NextSeek ==
    \/ ShufflerRead
    \/ JoinerRead

\* ------------------------------------------------------------------------
\* Seekable stream claims
\* ------------------------------------------------------------------------
\* where record k of the records recs starts
RECURSIVE StartOf(_, _)
StartOf(recs, k) == IF k = 1 THEN 0 ELSE StartOf(recs, k - 1) + recs[k - 1].size

\* the bytes the last Read returned are one whole record of a source
WholeRecord ==
    \E k \in 1..Len(sSrcs[sLast.Sum]) :
        /\ StartOf(sSrcs[sLast.Sum], k) = sLast.Offset
        /\ sSrcs[sLast.Sum][k].size = sLast.n

\* C17: seekable streams. A Read of a sort, shuffle or join stream that returns
\* no error has served exactly one whole record; Read returns ErrShortBuffer
\* exactly when the buffer is smaller than the next record; and a Read that
\* returned ErrShortBuffer has left the position where it was.
C17_OneRecordPerRead ==
    sLast.err # "none" =>
        /\ sLast.err = "nil" => WholeRecord
        /\ sLast.err = "ErrShortBuffer" <=>
             (sLast.pos < Len(sIndex) /\ sLast.lenbs < sIndex[sLast.pos + 1].Size)
        /\ sLast.err = "ErrShortBuffer" => sPos = sLast.pos

\* the Index ix names a record the decoder made a packet of: Offset is where
\* the record starts in its source and Size is its length
NamesRecord(ix) ==
    \E k \in 1..Len(sSrcs[ix.Sum]) :
        /\ sSrcs[ix.Sum][k].ok
        /\ StartOf(sSrcs[ix.Sum], k) = ix.Offset
        /\ sSrcs[ix.Sum][k].size = ix.Size

\* C25: index correctness. For every Index entry produced from a seekable
\* source, Offset is the position of the record's first byte in the source and
\* Size is its full length, also when earlier records of the source were
\* skipped or failed to decode; so a Read that seeks to Offset and reads Size
\* bytes returns that record.
C25_IndexCorrect ==
    sImpl # "none" =>
        /\ \A i \in 1..Len(sIndex) : NamesRecord(sIndex[i])
        /\ (sImpl = "shuffler" /\ sLast.err = "nil") =>
              NamesRecord([Sum |-> sLast.Sum, Offset |-> sLast.Offset, Size |-> sLast.n])

\* ------------------------------------------------------------------------
\* Packet.Diff of every packet kind, called both ways round
\* ------------------------------------------------------------------------
Channels == {1, 2}                  \* ChannelVic1, ChannelVic2
Origins == {51}
Properties == {16, 17, 32}          \* Property >> 4 is 1, 1 and 2
Counters == {0, 1, 3}               \* VMU sequence numbers and HRD counters
UMICodes == {<<0, 1, 0, 0, 0, 2>>, <<0, 1, 0, 0, 0, 3>>}

VMUPackets == [kind : {"VMU"}, channel : Channels, seq : Counters, ts : 0..MaxTime]

HRDPacketSet ==
    [kind : {"Image", "Table"}, origin : Origins, property : Properties,
     counter : Counters, ts : 0..MaxTime]

\* PD timestamps are in seconds
PDPackets == [kind : {"PD"}, code : UMICodes, ts : 0..MaxTime]

DiffPackets == TMPackets \cup VMUPackets \cup HRDPacketSet \cup PDPackets

\* VMUPacket.Diff: v.Diff(o)
RECURSIVE VMUDiff(_, _)
VMUDiff(v, o) ==
    IF o = NoPacket \/ o.kind # "VMU"
    THEN NoGap
    ELSE IF o.ts > v.ts
    THEN VMUDiff(o, v)
    ELSE IF o.channel # v.channel \/ o.seq = v.seq \/ o.seq + 1 = v.seq
    THEN NoGap
    ELSE [kind |-> "Gap", Id |-> o.channel, Starts |-> o.ts, Ends |-> v.ts,
          First |-> v.seq, Last |-> o.seq]

\* VMUCommonHeader.Diff: v.Diff(p), v the header of an Image or of a Table.
\* When the argument is the later one the code calls o.Diff(p), where o is the
\* header of p itself.
RECURSIVE HRDDiff(_, _)
HRDDiff(v, p) ==
    IF p = NoPacket \/ p.kind \notin {"Image", "Table"}
    THEN NoGap
    ELSE IF ~(p.origin = v.origin /\ p.property \div 16 = v.property \div 16)
    THEN NoGap
    ELSE IF p.ts > v.ts
    THEN HRDDiff(p, p)
    ELSE IF p.counter = v.counter \/ p.counter + 1 = v.counter
    THEN NoGap
    ELSE [kind |-> "Gap", Id |-> v.origin, Starts |-> p.ts, Ends |-> v.ts,
          First |-> v.counter, Last |-> p.counter]

\* PDPacket.Id: the six bytes of the UMI code, big endian, as the pair of its
\* high 16 and low 32 bits, and the first byte of the code
PDId(p) ==
    << <<p.code[1] * 256 + p.code[2],
         ((p.code[3] * 256 + p.code[4]) * 256 + p.code[5]) * 256 + p.code[6]>>,
       p.code[1] >>

\* PDPacket.Diff of part_013: p.Diff(o); both pc and oc are taken from p
RECURSIVE PDDiff(_, _)
PDDiff(p, o) ==
    IF o = NoPacket \/ o.kind # "PD"
    THEN NoGap
    ELSE LET pc == PDId(p)[1]
             oc == PDId(p)[1]
         IN  IF pc # oc
             THEN NoGap
             ELSE IF o.ts > p.ts
             THEN PDDiff(o, p)
             ELSE IF p.ts - o.ts <= 1
             THEN NoGap
             ELSE [kind |-> "Gap", Id |-> pc, Starts |-> o.ts, Ends |-> p.ts,
                   First |-> 0, Last |-> 0]

\* PDPacket.Diff of src/scan.go
PDDiffScan(p, o) == NoGap

\* p.Diff(o) through the Packet interface
PacketDiff(impl, p, o) ==
    CASE p.kind = "TM" -> TMDiff(p, o)
      [] p.kind = "VMU" -> VMUDiff(p, o)
      [] p.kind \in {"Image", "Table"} -> HRDDiff(p, o)
      [] p.kind = "PD" -> IF impl = "scan" THEN PDDiffScan(p, o) ELSE PDDiff(p, o)

\* the caller has p and q and calls p.Diff(q)
DiffForward ==
    /\ kPc = "start"
    /\ kPQ' = PacketDiff(kImpl, kP, kQ)
    /\ kPc' = "forward"
    /\ UNCHANGED <<kImpl, kP, kQ, kQP>>
    /\ UNCHANGED notDiff

\* then q.Diff(p)
DiffSwapped ==
    /\ kPc = "forward"
    /\ kQ # NoPacket
    /\ kQP' = PacketDiff(kImpl, kQ, kP)
    /\ kPc' = "done"
    /\ UNCHANGED <<kImpl, kP, kQ, kPQ>>
    /\ UNCHANGED notDiff

IdleDiff ==
    /\ kImpl = "none"
    /\ kPc = "idle"
    /\ kP = NoPacket
    /\ kQ = NoPacket
    /\ kPQ = NoGap
    /\ kQP = NoGap

\* two decoded packets, or a packet and nil; the PD packets of either file
InitDiff ==
    /\ kPc = "start"
    /\ kP \in DiffPackets
    /\ kQ \in DiffPackets \cup {NoPacket}
    /\ kImpl \in {"part_013", "scan"}
    /\ kImpl = "scan" => kP.kind = "PD" \/ (kQ # NoPacket /\ kQ.kind = "PD")
    /\ kPQ = NoGap
    /\ kQP = NoGap

NextDiff ==
    \/ DiffForward
    \/ DiffSwapped

\* ------------------------------------------------------------------------
\* Diff claims
\* ------------------------------------------------------------------------
\* Packet.Id of the kinds that have a sequence number
IdOf(p) ==
    CASE p.kind = "TM" -> <<p.apid, p.source>>
      [] p.kind = "VMU" -> <<p.channel>>
      [] p.kind \in {"Image", "Table"} -> <<p.origin, p.property \div 16>>
      [] p.kind = "PD" -> PDId(p)

Family(p) == IF p.kind \in {"Image", "Table"} THEN "HRD" ELSE p.kind

SeqOf(p) == IF p.kind \in {"Image", "Table"} THEN p.counter ELSE p.seq

\* C18: Diff does not depend on argument order. For two packets p and q of one
\* identity (TM, VMU, Image or Table), p.Diff(q) and q.Diff(p) are the same
\* result; when the timestamps and the sequences are equal it is no gap, and a
\* gap runs from the earlier packet to the later one.
C18_DiffSymmetric ==
    (kPc = "done" /\ kP.kind # "PD" /\ Family(kP) = Family(kQ) /\ IdOf(kP) = IdOf(kQ)) =>
        /\ kPQ = kQP
        /\ (kP.ts = kQ.ts /\ SeqOf(kP) = SeqOf(kQ)) => kPQ = NoGap
        /\ kPQ # NoGap => kPQ.Starts <= kPQ.Ends

\* C19: PDPacket.Diff reports a gap if and only if both packets are PD packets
\* of the same UMI code and their timestamps differ by more than one second.
C19_PDGap ==
    (kPc \in {"forward", "done"} /\ kP.kind = "PD") =>
        (kPQ # NoGap <=>
            /\ kQ # NoPacket
            /\ kQ.kind = "PD"
            /\ PDId(kQ) = PDId(kP)
            /\ (kP.ts - kQ.ts > 1 \/ kQ.ts - kP.ts > 1))

\* ------------------------------------------------------------------------
\* Gap tracking over a walk: Gaps (cmd/meex) and reportGaps
\* ------------------------------------------------------------------------
\* the packets a walk may deliver
TrackPackets ==
    {p \in TMPackets : p.seq \in {7, 8, 10}}
        \cup {p \in VMUPackets : p.channel = 1 /\ p.seq \in {0, 3}}

\* the -duration option of the gaps report
Durations == 0..MaxTime

\* defaultPacketKey(p): the apid in decimal for a TM packet, "vic" and the
\* channel number for a VMU packet
defaultPacketKey(p) ==
    CASE p.kind = "TM" -> <<"", p.apid>>
      [] p.kind = "VMU" -> <<"vic", p.channel>>

\* id, _ := curr.Id()
FirstId(p) ==
    CASE p.kind = "TM" -> p.apid
      [] p.kind = "VMU" -> p.channel

\* gs[id], nil when the map has no such key
Lookup(tab, id) == IF id \in DOMAIN tab THEN tab[id] ELSE NoPacket

\* gs[id] = p
Store(tab, id, p) == [i \in (DOMAIN tab) \cup {id} |-> IF i = id THEN p ELSE tab[i]]

\* g.Duration()
Duration(g) == g.Ends - g.Starts

\* one turn of the loop of Gaps: the walk delivers p
GapsTurn ==
    /\ tImpl = "Gaps"
    /\ tCount < MaxTrack
    /\ \E p \in TrackPackets :
        LET id == defaultPacketKey(p)
            g  == PacketDiff("part_013", p, Lookup(tGs, id))
        IN  /\ tCurr' = p
            /\ tKey' = id
            /\ tGap' = g
            /\ tReported' = (g # NoGap)
            /\ tBefore' = Lookup(tLatest, id)
            /\ tGs' = Store(tGs, id, p)
            /\ tLatest' = Store(tLatest, id, p)
    /\ tCount' = tCount + 1
    /\ UNCHANGED <<tImpl, tDuration>>
    /\ UNCHANGED notTrack

\* one turn of the loop of reportGaps: the queue delivers curr
ReportGapsTurn ==
    /\ tImpl = "reportGaps"
    /\ tCount < MaxTrack
    /\ \E curr \in TrackPackets :
        LET id == FirstId(curr)
            g  == PacketDiff("part_013", curr, Lookup(tGs, id))
        IN  /\ tCurr' = curr
            /\ tKey' = id
            /\ tGap' = g
            /\ tBefore' = Lookup(tLatest, id)
            /\ tLatest' = Store(tLatest, id, curr)
            /\ IF g # NoGap /\ Duration(g) < tDuration
               THEN \* continue
                    /\ tReported' = FALSE
                    /\ tGs' = tGs
               ELSE /\ tReported' = (g # NoGap)
                    /\ tGs' = Store(tGs, id, curr)
    /\ tCount' = tCount + 1
    /\ UNCHANGED <<tImpl, tDuration>>
    /\ UNCHANGED notTrack

IdleTrack ==
    /\ tImpl = "none"
    /\ tDuration = 0
    /\ tGs = << >>
    /\ tLatest = << >>
    /\ tCurr = NoPacket
    /\ tKey = 0
    /\ tBefore = NoPacket
    /\ tGap = NoGap
    /\ tReported = FALSE
    /\ tCount = 0

\* gs := make(map[...]Packet), before the first packet; Gaps has no duration
InitTrack ==
    /\ tImpl \in {"Gaps", "reportGaps"}
    /\ tDuration \in Durations
    /\ tImpl = "Gaps" => tDuration = 0
    /\ tGs = << >>
    /\ tLatest = << >>
    /\ tCurr = NoPacket
    /\ tKey = 0
    /\ tBefore = NoPacket
    /\ tGap = NoGap
    /\ tReported = FALSE
    /\ tCount = 0

NextTrack ==
    \/ GapsTurn
    \/ ReportGapsTurn

\* ------------------------------------------------------------------------
\* Gap tracking claims
\* ------------------------------------------------------------------------
\* C20: gap tracking keeps prev[i] equal to the most recent packet of identity
\* i. After every processed packet curr of identity i, prev[i] = curr, whether
\* or not a gap was detected or filtered out of the report; so a reported gap
\* is the Diff of curr and the packet of its identity the walk delivered just
\* before it.
C20_PrevIsLatest ==
    tCount > 0 =>
        /\ tKey \in DOMAIN tGs
        /\ tGs[tKey] = tCurr
        /\ tReported => tGap = PacketDiff("part_013", tCurr, tBefore)

\* ------------------------------------------------------------------------
\* Reader.packets: the loop that feeds Reader.Packets
\* ------------------------------------------------------------------------
\* what decoding a record of the source gives: a packet, or an error
PacketOutcomes == {"packet", "ErrSkip"}

\* how the underlying reader fails: never, on one Read, or on every Read from
\* some point on (a closed file, a device that went away)
ReadFailures == {"never", "once", "always"}

\* r.Next() of part_013: the error of reader.Read is returned as it is
Next013(recs, pos, fail, failAt) ==
    IF fail # "never" /\ pos >= failAt
    THEN [err |-> "EIO", pos |-> pos]
    ELSE IF pos >= Len(recs)
    THEN [err |-> "EOF", pos |-> pos]
    ELSE [err |-> IF recs[pos + 1] = "packet" THEN "nil" ELSE "ErrSkip", pos |-> pos + 1]

\* r.Next() of src/scan.go: Scan() is false at the end and on a read error
\* alike, and both give io.EOF
NextScan(recs, pos, fail, failAt) ==
    IF (fail # "never" /\ pos >= failAt) \/ pos >= Len(recs)
    THEN [err |-> "EOF", pos |-> pos]
    ELSE [err |-> IF recs[pos + 1] = "packet" THEN "nil" ELSE "ErrSkip", pos |-> pos + 1]

\* p, err := r.Next()
PacketsNext ==
    /\ pPc = "loop"
    /\ LET res == IF pImpl = "part_013"
                  THEN Next013(pRecs, pPos, pFail, pFailAt)
                  ELSE NextScan(pRecs, pPos, pFail, pFailAt)
       IN  /\ pErr' = res.err
           /\ pPos' = res.pos
           /\ pFail' = IF pFail = "once" /\ pPos >= pFailAt THEN "never" ELSE pFail
    /\ pPc' = "got"
    /\ UNCHANGED <<pImpl, pRecs, pFailAt, pSent>>
    /\ UNCHANGED notPackets

\* if err == io.EOF { return }, with the deferred close(r.queue)
PacketsClose ==
    /\ pPc = "got"
    /\ pErr = "EOF"
    /\ pPc' = "closed"
    /\ UNCHANGED <<pImpl, pRecs, pPos, pFail, pFailAt, pErr, pSent>>
    /\ UNCHANGED notPackets

\* if err == nil { r.queue <- p }, the consumer receiving
PacketsSend ==
    /\ pPc = "got"
    /\ pErr = "nil"
    /\ pSent' = pSent + 1
    /\ pPc' = "loop"
    /\ UNCHANGED <<pImpl, pRecs, pPos, pFail, pFailAt, pErr>>
    /\ UNCHANGED notPackets

\* any other error: the loop goes round
PacketsAgain ==
    /\ pPc = "got"
    /\ pErr \notin {"nil", "EOF"}
    /\ pPc' = "loop"
    /\ UNCHANGED <<pImpl, pRecs, pPos, pFail, pFailAt, pErr, pSent>>
    /\ UNCHANGED notPackets

IdlePackets ==
    /\ pImpl = "none"
    /\ pPc = "none"
    /\ pRecs = << >>
    /\ pPos = 0
    /\ pFail = "never"
    /\ pFailAt = 0
    /\ pErr = "nil"
    /\ pSent = 0

\* Packets() has made the queue and started the goroutine
InitPackets ==
    /\ pImpl \in {"part_013", "scan"}
    /\ pPc = "loop"
    /\ pRecs \in SeqsUpTo(PacketOutcomes, MaxQueued)
    /\ pPos = 0
    /\ pFail \in ReadFailures
    /\ pFailAt \in 0..Len(pRecs)
    /\ pFail = "never" => pFailAt = 0
    /\ pErr = "nil"
    /\ pSent = 0

NextPackets ==
    \/ PacketsNext
    \/ PacketsClose
    \/ PacketsSend
    \/ PacketsAgain

\* ------------------------------------------------------------------------
\* Reader.packets claims
\* ------------------------------------------------------------------------
\* C21: for a finite input the packet sequence always terminates.
\* Reader.packets closes its channel after end-of-file and also after a read
\* error other than end-of-file: in every run the channel is closed in the
\* end.
C21_PacketsTerminates == <>(pPc = "closed")

\* ------------------------------------------------------------------------
\* The Reader's buffer and the packets that share its bytes
\* ------------------------------------------------------------------------
\* payload sizes of the records of a source: one byte, or MaxBufferSize, the
\* largest record the Scanner lets through
BufSizes == {1, MaxBufferSize}

BufRecords == [size : BufSizes, ts : 0..1]

\* the bytes [off, off + len) of the buffer
Span(off, len) == [off |-> off, len |-> len]

Overlaps(a, b) == a.off < b.off + b.len /\ b.off < a.off + a.len

\* the packets in ps whose bytes a write to the span w changes
Clobbered(ps, w) == {i \in DOMAIN ps : Overlaps(ps[i].span, w)}

\* r.Next() of part_013 on the record rec, with where it writes: the prefix at
\* r.offset, then, after the offset may have been set back to 0, the prefix
\* again and the payload
NextSpans(off, rec) ==
    LET o1 == IF maxBufferSize - off < 1024 THEN 0 ELSE off
        o2 == IF rec.size >= maxBufferSize - o1 THEN 0 ELSE o1
    IN  [prefix |-> Span(o1, 4),
         whole  |-> Span(o2, rec.size + 4),
         panic  |-> o2 + rec.size + 4 > maxBufferSize,
         offset |-> o2 + rec.size + 4]

\* the reader's goroutine: p, err := r.Next()
BufNext ==
    /\ bPc = "next"
    /\ IF bPos >= Len(bRecs)
       THEN /\ bPc' = "closed"
            /\ UNCHANGED <<bPos, bOffset, bPkt, bDirty>>
       ELSE LET rec == bRecs[bPos + 1]
                n   == NextSpans(bOffset, rec)
            IN  IF n.panic
                THEN /\ bPc' = "panic"
                     /\ bDirty' = bDirty \cup
                            {bHeld[i].rec : i \in Clobbered(bHeld, n.prefix)}
                     /\ UNCHANGED <<bPos, bOffset, bPkt>>
                ELSE /\ bPc' = "send"
                     /\ bPos' = bPos + 1
                     /\ bOffset' = n.offset
                     /\ bPkt' = [rec |-> bPos + 1, ts |-> rec.ts, span |-> n.whole]
                     /\ bDirty' = bDirty \cup
                            {bHeld[i].rec : i \in Clobbered(bHeld, n.prefix)
                                                \cup Clobbered(bHeld, n.whole)}
    /\ UNCHANGED <<bRecs, bHeld, bcPc, bT>>
    /\ UNCHANGED notBuffer

\* r.queue <- p, received by scanPackets: p0 = p
BufFirst ==
    /\ bPc = "send"
    /\ bcPc = "first"
    /\ bHeld' = <<bPkt>>
    /\ bT' = bPkt.ts
    /\ bcPc' = "until"
    /\ bPc' = "next"
    /\ UNCHANGED <<bRecs, bPos, bOffset, bPkt, bDirty>>
    /\ UNCHANGED notBuffer

\* r.queue <- p, received by scanUntil(t, queue): kept with the others while
\* its timestamp is t; otherwise scanUntil returns and Merge writes what it
\* holds
BufUntil ==
    /\ bPc = "send"
    /\ bcPc = "until"
    /\ IF bPkt.ts = bT
       THEN /\ bHeld' = Append(bHeld, bPkt)
            /\ UNCHANGED <<bcPc, bT>>
       ELSE /\ bHeld' = <<bPkt>>
            /\ bT' = bPkt.ts
            /\ UNCHANGED bcPc
    /\ bPc' = "next"
    /\ UNCHANGED <<bRecs, bPos, bOffset, bPkt, bDirty>>
    /\ UNCHANGED notBuffer

\* the queue is closed: scanUntil returns, Merge writes what it holds
BufEnd ==
    /\ bPc = "closed"
    /\ bcPc \in {"first", "until"}
    /\ bHeld' = << >>
    /\ bcPc' = "done"
    /\ UNCHANGED <<bRecs, bPos, bOffset, bPkt, bDirty, bPc, bT>>
    /\ UNCHANGED notBuffer

NoBufPacket == [rec |-> 0, ts |-> 0, span |-> Span(0, 0)]

IdleBuffer ==
    /\ bPc = "none"
    /\ bcPc = "none"
    /\ bRecs = << >>
    /\ bPos = 0
    /\ bOffset = 0
    /\ bPkt = NoBufPacket
    /\ bHeld = << >>
    /\ bT = 0
    /\ bDirty = {}

\* NewReader has made the buffer, Packets() has started the goroutine, and
\* Merge waits for its first packet
InitBuffer ==
    /\ bPc = "next"
    /\ bcPc = "first"
    /\ bRecs \in SeqsUpTo(BufRecords, MaxBufRecs)
    /\ bPos = 0
    /\ bOffset = 0
    /\ bPkt = NoBufPacket
    /\ bHeld = << >>
    /\ bT = 0
    /\ bDirty = {}

NextBuffer ==
    \/ BufNext
    \/ BufFirst
    \/ BufUntil
    \/ BufEnd

\* ------------------------------------------------------------------------
\* Buffer claims
\* ------------------------------------------------------------------------
\* C22: packets are immutable once decoded. The bytes of a packet delivered on
\* Reader.Packets are not modified by later reads of the Reader while a
\* consumer still holds the packet: no packet the Merger holds has had bytes
\* of its span written again.
C22_HeldUnchanged ==
    \A i \in DOMAIN bHeld : bHeld[i].rec \notin bDirty

\* ------------------------------------------------------------------------
\* Merger over inputs in timestamp order
\* ------------------------------------------------------------------------
\* packets that may differ in their bytes alone
MPacketsLen == [kind : {"TM"}, ts : TsVals, seq : MSeqVals, len : {30, 31}]

\* in non-decreasing timestamp order
ByTime(ps) == \A i, j \in 1..Len(ps) : i < j => ps[i].ts <= ps[j].ts

\* Merge is called on two archives, each in timestamp order, that have no
\* record twice and no record in common
InitMergeOrdered ==
    /\ mPc = "start"
    /\ mIn \in SeqsUpTo(MPacketsLen, MaxIn) \X SeqsUpTo(MPacketsLen, MaxIn)
    /\ ByTime(mIn[1]) /\ ByTime(mIn[2])
    /\ NoRepeat(mIn[1] \o mIn[2])
    /\ mSrc = mIn[1]
    /\ mTgt = mIn[2]
    /\ mP0 = Nil
    /\ mP1 = Nil
    /\ mLow = 0
    /\ mStats = [Rogue |-> 0, Count |-> 0, Size |-> 0]
    /\ \E k \in 0..MaxFailAt : mW = NewWriter(k)

\* where the packet p is in the output, 0 when it is not
OutPos(p) ==
    IF \E i \in 1..Len(mW.out) : mW.out[i] = p
    THEN CHOOSE i \in 1..Len(mW.out) : mW.out[i] = p
    ELSE 0

\* C23: merger ordering. Given two inputs that are each in non-decreasing
\* timestamp order, the output is in non-decreasing timestamp order, packets
\* of the same input keep their relative order, and packets with equal
\* timestamps are ordered by Less.
C23_MergeOrder ==
    mPc \in {"loop", "done", "error"} =>
        /\ ByTime(mW.out)
        /\ \A s \in 1..2 : \A a, b \in 1..Len(mIn[s]) :
             (a < b /\ OutPos(mIn[s][a]) > 0 /\ OutPos(mIn[s][b]) > 0) =>
                 OutPos(mIn[s][a]) < OutPos(mIn[s][b])
        /\ \A i, j \in 1..Len(mW.out) :
             (i < j /\ mW.out[i].ts = mW.out[j].ts) => ~Less(mW.out[j], mW.out[i])

\* ------------------------------------------------------------------------
\* CountByDay
\* ------------------------------------------------------------------------
Day == 2                    \* time.Hour * 24, in units of 12 hours

\* the packets of a walk: TM packets with their timestamp in units of 12 hours
DayPackets == [kind : {"TM"}, apid : Apids, ts : 0..MaxDayTime]

\* &KeyTimeCoze{Coze: &Coze{Id: i}, Key: id, When: p.Timestamp().Truncate(Day)};
\* of the Coze only Count is kept; who is the ghost list of the packets counted
NewCoze(id, p) == [Key |-> id, When |-> Truncate(p.ts, Day), Count |-> 0, who |-> << >>]

\* one turn of the loop of CountByDay: Walk delivers p
CountTurn ==
    /\ cdPc = "run"
    /\ Len(cdLog) < MaxCounted
    /\ \E p \in DayPackets :
        LET id    == defaultPacketKey(p)
            c     == Lookup(cdGs, id)
            flush == c # NoPacket /\ p.ts - c.When >= Day
            c1    == IF c = NoPacket \/ flush THEN NewCoze(id, p) ELSE c
            c2    == [c1 EXCEPT !.Count = @ + 1, !.who = Append(@, Len(cdLog) + 1)]
        IN  /\ cdOut' = IF flush THEN Append(cdOut, c) ELSE cdOut
            /\ cdGs' = Store(cdGs, id, c2)
            /\ cdLog' = Append(cdLog, p)
    /\ UNCHANGED cdPc
    /\ UNCHANGED notCount

\* the queue of Walk is closed: `for _, c := range gs { q <- c }`, in the
\* order the map gives its values, and q is closed
CountEnd ==
    /\ cdPc = "run"
    /\ LET ids == DOMAIN cdGs IN
       \E order \in {f \in [1..Cardinality(ids) -> ids] :
                        \A i, j \in 1..Cardinality(ids) : i # j => f[i] # f[j]} :
          cdOut' = cdOut \o [i \in 1..Cardinality(ids) |-> cdGs[order[i]]]
    /\ cdPc' = "done"
    /\ UNCHANGED <<cdGs, cdLog>>
    /\ UNCHANGED notCount

IdleCount ==
    /\ cdPc = "none"
    /\ cdGs = << >>
    /\ cdOut = << >>
    /\ cdLog = << >>

\* gs := make(map[string]*KeyTimeCoze), before the first packet
InitCount ==
    /\ cdPc = "run"
    /\ cdGs = << >>
    /\ cdOut = << >>
    /\ cdLog = << >>

NextCount ==
    \/ CountTurn
    \/ CountEnd

\* ------------------------------------------------------------------------
\* CountByDay claims
\* ------------------------------------------------------------------------
\* the emitted buckets that counted the k-th packet of the walk
BucketsOf(k) ==
    {i \in 1..Len(cdOut) : \E j \in 1..Len(cdOut[i].who) : cdOut[i].who[j] = k}

\* C24: CountByDay counts every walked packet in exactly one emitted bucket,
\* and that bucket has the packet's identity key and a Day-aligned start When
\* with When <= packet.timestamp < When + Day.
C24_CountByDay ==
    cdPc = "done" =>
        \A k \in 1..Len(cdLog) :
            /\ Cardinality(BucketsOf(k)) = 1
            /\ \A i \in BucketsOf(k) :
                /\ cdOut[i].Key = defaultPacketKey(cdLog[k])
                /\ cdOut[i].When % Day = 0
                /\ cdOut[i].When <= cdLog[k].ts
                /\ cdLog[k].ts < cdOut[i].When + Day
                /\ cdOut[i].Count = Len(cdOut[i].who)

\* ------------------------------------------------------------------------
\* Sort: SortWith with no SortFunc, with SortTMIndex and with SortHRDIndex
\* ------------------------------------------------------------------------
SortFuncs == {"nil", "SortTMIndex", "SortHRDIndex"}

\* the Index entries of a source, without their place in it
IndexEntries == [Id : {1, 2}, Sequence : {0, 1}, Size : {5, 6}, Timestamp : 0..1]

\* the entry e as the k-th of the index of its source
Indexed(e, k) ==
    [Id |-> e.Id, Sequence |-> e.Sequence, Size |-> e.Size, Timestamp |-> e.Timestamp,
     k |-> k]

\* the less function handed to sort.Slice
IndexLess(f, a, b) ==
    CASE f = "nil" -> a.Timestamp < b.Timestamp
      [] f = "SortTMIndex" ->
            IF a.Timestamp = b.Timestamp
            THEN a.Sequence < b.Sequence
            ELSE a.Timestamp < b.Timestamp
      [] f = "SortHRDIndex" ->
            IF a.Timestamp = b.Timestamp
            THEN IF a.Id # b.Id THEN a.Size < b.Size ELSE a.Sequence < b.Sequence
            ELSE a.Timestamp < b.Timestamp

\* sort.Slice(ix, less) on a slice this short is an insertion sort: each entry
\* in turn moves left past the entries it is less than
RECURSIVE SlideIn(_, _, _)
SlideIn(f, s, x) ==
    IF s = << >> THEN <<x>>
    ELSE IF IndexLess(f, x, s[Len(s)])
    THEN Append(SlideIn(f, SubSeq(s, 1, Len(s) - 1), x), s[Len(s)])
    ELSE Append(s, x)

RECURSIVE insertionSort(_, _, _)
insertionSort(f, ix, n) ==
    IF n = 0 THEN << >> ELSE SlideIn(f, insertionSort(f, ix, n - 1), ix[n])

SortSlice(f, ix) == insertionSort(f, ix, Len(ix))

\* SortWith(r, d, f): the index of the source, sorted
SortWith ==
    /\ oPc = "new"
    /\ oIndex' = SortSlice(oFunc, oIn)
    /\ oPc' = "read"
    /\ UNCHANGED <<oFunc, oIn, oPos, oGot>>
    /\ UNCHANGED notSort

\* shuffler.Read with a buffer that is large enough: the record of the next
\* entry, or io.EOF
SortedRead ==
    /\ oPc = "read"
    /\ IF oPos >= Len(oIndex)
       THEN /\ oPc' = "eof"
            /\ UNCHANGED <<oPos, oGot>>
       ELSE /\ oGot' = Append(oGot, oIndex[oPos + 1])
            /\ oPos' = oPos + 1
            /\ UNCHANGED oPc
    /\ UNCHANGED <<oFunc, oIn, oIndex>>
    /\ UNCHANGED notSort

IdleSort ==
    /\ oPc = "none"
    /\ oFunc = "nil"
    /\ oIn = << >>
    /\ oIndex = << >>
    /\ oPos = 0
    /\ oGot = << >>

\* a source whose records all decode, and the SortFunc of the packet kind
InitSort ==
    /\ oPc = "new"
    /\ oFunc \in SortFuncs
    /\ \E es \in SeqsUpTo(IndexEntries, MaxSorted) :
         oIn = [k \in 1..Len(es) |-> Indexed(es[k], k)]
    /\ oIndex = << >>
    /\ oPos = 0
    /\ oGot = << >>

NextSort ==
    \/ SortWith
    \/ SortedRead

\* ------------------------------------------------------------------------
\* Sort claims
\* ------------------------------------------------------------------------
\* a comes before b in a stable sort by timestamp, then sequence
StableBefore(a, b) ==
    \/ a.Timestamp < b.Timestamp
    \/ a.Timestamp = b.Timestamp /\ a.Sequence < b.Sequence
    \/ a.Timestamp = b.Timestamp /\ a.Sequence = b.Sequence /\ a.k < b.k

\* C26: Sort returns each indexed record of the source exactly once, in
\* ascending timestamp order, with equal timestamps ordered by ascending
\* sequence and otherwise kept in source order (stable sort).
C26_SortStable ==
    oPc = "eof" =>
        /\ Len(oGot) = Len(oIn)
        /\ \A k \in 1..Len(oIn) : \E i \in 1..Len(oGot) : oGot[i] = oIn[k]
        /\ \A i, j \in 1..Len(oGot) : i < j => StableBefore(oGot[i], oGot[j])

\* ------------------------------------------------------------------------
\* Join: JoinWith over sources indexed concurrently, and joiner.Read
\* ------------------------------------------------------------------------
\* a record of a joined source: its length, its timestamp and whether the
\* decoder makes a packet of it; its bytes are told by length and timestamp
JoinRecords == [size : {5, 6}, ts : 0..1, ok : BOOLEAN]

JoinSources == SeqsUpTo(JoinRecords, MaxJoinRecs)

\* the digest of all bytes of a source: sources of the same bytes have the
\* same digest
Digest(recs) == [k \in 1..Len(recs) |-> <<recs[k].size, recs[k].ts>>]

\* Reader.IndexSum and indexReader over the source s, from record k on; from
\* and k are the ghost of where the entry comes from
RECURSIVE indexReader(_, _, _, _)
indexReader(s, recs, k, curr) ==
    IF k > Len(recs) THEN << >>
    ELSE IF recs[k].ok
    THEN <<[Sum |-> Digest(recs), Offset |-> curr, Size |-> recs[k].size,
            Timestamp |-> recs[k].ts, from |-> s, k |-> k]>>
            \o indexReader(s, recs, k + 1, curr + recs[k].size)
    ELSE indexReader(s, recs, k + 1, curr)

\* one goroutine of group.Go finishes: under the mutex, its entries are
\* appended to index and its reader is put in ms under its digest
IndexerDone ==
    /\ jPc = "index"
    /\ \E s \in jPending :
        /\ jIndex' = jIndex \o indexReader(s, jSrcs[s], 1, 0)
        /\ jMs' = Store(jMs, Digest(jSrcs[s]), s)
        /\ jPending' = jPending \ {s}
    /\ UNCHANGED <<jPc, jSrcs, jOffset, jGot>>
    /\ UNCHANGED notJoin

\* group.Wait() has returned: the index is sorted by timestamp and the joiner
\* returned
JoinSorted ==
    /\ jPc = "index"
    /\ jPending = {}
    /\ jIndex' = SortSlice("nil", jIndex)
    /\ jPc' = "read"
    /\ UNCHANGED <<jSrcs, jPending, jMs, jOffset, jGot>>
    /\ UNCHANGED notJoin

\* joiner.Read(bs) with len(bs) >= MaxBufferSize: io.EOF, or the Size bytes at
\* Offset of the reader found under the entry's digest
JoinRead ==
    /\ jPc = "read"
    /\ IF jOffset >= Len(jIndex)
       THEN /\ jPc' = "eof"
            /\ UNCHANGED <<jOffset, jGot>>
       ELSE LET ix == jIndex[jOffset + 1] IN
            /\ jOffset' = jOffset + 1
            /\ jGot' = Append(jGot, [src |-> jMs[ix.Sum], off |-> ix.Offset, n |-> ix.Size,
                                     from |-> ix.from, k |-> ix.k])
            /\ UNCHANGED jPc
    /\ UNCHANGED <<jSrcs, jPending, jIndex, jMs>>
    /\ UNCHANGED notJoin

IdleJoin ==
    /\ jPc = "none"
    /\ jSrcs = << >>
    /\ jPending = {}
    /\ jIndex = << >>
    /\ jMs = << >>
    /\ jOffset = 0
    /\ jGot = << >>

\* JoinWith has started one goroutine for each source
InitJoin ==
    /\ jPc = "index"
    /\ jSrcs \in SeqsUpTo(JoinSources, MaxSources)
    /\ jSrcs # << >>
    /\ jPending = DOMAIN jSrcs
    /\ jIndex = << >>
    /\ jMs = << >>
    /\ jOffset = 0
    /\ jGot = << >>

NextJoin ==
    \/ IndexerDone
    \/ JoinSorted
    \/ JoinRead

\* ------------------------------------------------------------------------
\* Join claims
\* ------------------------------------------------------------------------
\* C27: Join over sources that are indexed concurrently returns every record
\* of every source exactly once, each read back from the source it was indexed
\* from, whatever the order in which the indexers finish: each Read returned
\* the bytes of one record from the source the entry was made from, and at the
\* end each record the decoder made a packet of has been returned once.
C27_JoinAll ==
    /\ \A i \in 1..Len(jGot) :
         /\ jGot[i].src = jGot[i].from
         /\ jGot[i].off = StartOf(jSrcs[jGot[i].from], jGot[i].k)
         /\ jGot[i].n = jSrcs[jGot[i].from][jGot[i].k].size
    /\ jPc = "eof" =>
         \A s \in 1..Len(jSrcs) : \A k \in 1..Len(jSrcs[s]) :
            jSrcs[s][k].ok =>
                Cardinality({i \in 1..Len(jGot) : jGot[i].from = s /\ jGot[i].k = k}) = 1

\* ------------------------------------------------------------------------
\* runExtract: one goroutine for each file, four extractors at a time
\* ------------------------------------------------------------------------
SemaCap == 4                \* sema := make(chan struct{}, 4)

\* a send that never waits
CanSendAlways(n) == TRUE

\* `sema <- struct{}{}` can go on when n tokens are in the channel
CanSend(n) == n < SemaCap

\* the extractors between their send on sema and their receive from it
Extracting == {f \in DOMAIN ePc : ePc[f] = "extract"}

\* `sema <- struct{}{}` of the goroutine of file f
ExtractAcquire ==
    /\ eRet = "wait"
    /\ \E f \in DOMAIN ePc :
        /\ ePc[f] = "go"
        /\ CanSend(eSema)
        /\ eSema' = eSema + 1
        /\ ePc' = [ePc EXCEPT ![f] = "extract"]
    /\ UNCHANGED <<eFails, eErr, eRet>>
    /\ UNCHANGED notExtract

\* extractPackets of file f returns, the token is taken back from sema, and
\* the goroutine returns err to the group, which keeps the first error
ExtractRelease ==
    /\ eRet = "wait"
    /\ \E f \in DOMAIN ePc :
        /\ ePc[f] = "extract"
        /\ eSema' = eSema - 1
        /\ ePc' = [ePc EXCEPT ![f] = "done"]
        /\ eErr' = IF f \in eFails /\ eErr = 0 THEN f ELSE eErr
    /\ UNCHANGED <<eFails, eRet>>
    /\ UNCHANGED notExtract

\* `return group.Wait()`: every goroutine has returned
ExtractWait ==
    /\ eRet = "wait"
    /\ \A f \in DOMAIN ePc : ePc[f] = "done"
    /\ eRet' = IF eErr = 0 THEN "nil" ELSE "error"
    /\ UNCHANGED <<ePc, eFails, eSema, eErr>>
    /\ UNCHANGED notExtract

IdleExtract ==
    /\ ePc = << >>
    /\ eFails = {}
    /\ eSema = 0
    /\ eErr = 0
    /\ eRet = "none"

\* group.Go has started a goroutine for each argument; eFails are the files
\* whose extractPackets will return an error
InitExtract ==
    /\ \E n \in 0..MaxFiles : ePc = [f \in 1..n |-> "go"]
    /\ eFails \in SUBSET (DOMAIN ePc)
    /\ eSema = 0
    /\ eErr = 0
    /\ eRet = "wait"

NextExtract ==
    \/ ExtractAcquire
    \/ ExtractRelease
    \/ ExtractWait

\* ------------------------------------------------------------------------
\* runExtract claims
\* ------------------------------------------------------------------------
\* C28: bounded extraction. At most four per-file extractors run at the same
\* time, every input file is processed in the end and runExtract returns (the
\* semaphore never deadlocks), and the result is a failure if and only if
\* some extractor failed.
C28_BoundedExtract ==
    /\ [](Cardinality(Extracting) <= 4)
    /\ <>(eRet \in {"nil", "error"})
    /\ [](eRet \in {"nil", "error"} =>
            /\ \A f \in DOMAIN ePc : ePc[f] = "done"
            /\ eRet = "error" <=> eFails # {})

\* four extractors run and a fifth file waits for the semaphore, in a run where
\* some extractor fails
C28_Witness ==
    /\ Cardinality(Extracting) = 4
    /\ \E f \in DOMAIN ePc : ePc[f] = "go"
    /\ eFails # {}

\* ------------------------------------------------------------------------
\* Merge with an empty input
\* ------------------------------------------------------------------------
\* C29: Merge with an empty input does not fail. If both inputs are empty it
\* returns without writing anything and without crashing, and if exactly one
\* input is empty it completes by writing the packets of the other input.
C29_EmptyInput ==
    (mPc # "none" /\ (mIn[1] = << >> \/ mIn[2] = << >>)) =>
        /\ mPc # "panic"
        /\ (mPc = "done" /\ mW.failAt = 0) =>
              mStats.Count = Len(mIn[1]) + Len(mIn[2])

\* ------------------------------------------------------------------------
\* Deduplicating writer over a sink that fails
\* ------------------------------------------------------------------------
\* the record of the last Write
LastWritten == dLog[Len(dLog)]

\* C30: if the sink write of a record's first occurrence fails, the
\* Deduplicator returns that error and does not mark the record as seen; so a
\* Write that returns no error is of a record the sink holds, and is never a
\* success reported without the record having been written.
C30_FailedNotSeen ==
    dLog # << >> =>
        /\ dW.err => md5Sum(LastWritten) \notin dW.sums
        /\ ~dW.err => \E i \in 1..Len(dW.out) : dW.out[i] = LastWritten

\* ------------------------------------------------------------------------
\* Specifications
\* ------------------------------------------------------------------------
FrameInit == InitFrame /\ IdleGap /\ IdleMerge /\ IdleDedup /\ IdleMix /\ IdleWalk /\ IdleTimePath /\ IdleVMU /\ IdleSeek /\ IdleDiff /\ IdleTrack /\ IdlePackets /\ IdleBuffer /\ IdleCount /\ IdleSort /\ IdleJoin /\ IdleExtract
SpecFrame == FrameInit /\ [][NextFrame]_vars

GapInit == IdleFrame /\ InitGap /\ IdleMerge /\ IdleDedup /\ IdleMix /\ IdleWalk /\ IdleTimePath /\ IdleVMU /\ IdleSeek /\ IdleDiff /\ IdleTrack /\ IdlePackets /\ IdleBuffer /\ IdleCount /\ IdleSort /\ IdleJoin /\ IdleExtract
SpecGap == GapInit /\ [][NextGap]_vars

MergeInit == IdleFrame /\ IdleGap /\ InitMerge /\ IdleDedup /\ IdleMix /\ IdleWalk /\ IdleTimePath /\ IdleVMU /\ IdleSeek /\ IdleDiff /\ IdleTrack /\ IdlePackets /\ IdleBuffer /\ IdleCount /\ IdleSort /\ IdleJoin /\ IdleExtract
SpecMerge == MergeInit /\ [][NextMerge]_vars

MergeOrderedInit ==
    IdleFrame /\ IdleGap /\ InitMergeOrdered /\ IdleDedup /\ IdleMix /\ IdleWalk
        /\ IdleTimePath /\ IdleVMU /\ IdleSeek /\ IdleDiff /\ IdleTrack /\ IdlePackets /\ IdleBuffer /\ IdleCount /\ IdleSort /\ IdleJoin /\ IdleExtract
SpecMergeOrdered == MergeOrderedInit /\ [][NextMerge]_vars

DedupInit == IdleFrame /\ IdleGap /\ IdleMerge /\ InitDedup /\ IdleMix /\ IdleWalk /\ IdleTimePath /\ IdleVMU /\ IdleSeek /\ IdleDiff /\ IdleTrack /\ IdlePackets /\ IdleBuffer /\ IdleCount /\ IdleSort /\ IdleJoin /\ IdleExtract
SpecDedup == DedupInit /\ [][NextDedup]_vars

MixInit == IdleFrame /\ IdleGap /\ IdleMerge /\ IdleDedup /\ InitMix /\ IdleWalk /\ IdleTimePath /\ IdleVMU /\ IdleSeek /\ IdleDiff /\ IdleTrack /\ IdlePackets /\ IdleBuffer /\ IdleCount /\ IdleSort /\ IdleJoin /\ IdleExtract
SpecMix == MixInit /\ [][NextMix]_vars

WalkInit == IdleFrame /\ IdleGap /\ IdleMerge /\ IdleDedup /\ IdleMix /\ InitWalk /\ IdleTimePath /\ IdleVMU /\ IdleSeek /\ IdleDiff /\ IdleTrack /\ IdlePackets /\ IdleBuffer /\ IdleCount /\ IdleSort /\ IdleJoin /\ IdleExtract
SpecWalk == WalkInit /\ [][NextWalk]_vars

TimePathInit ==
    IdleFrame /\ IdleGap /\ IdleMerge /\ IdleDedup /\ IdleMix /\ IdleWalk /\ InitTimePath
        /\ IdleVMU /\ IdleSeek /\ IdleDiff /\ IdleTrack /\ IdlePackets /\ IdleBuffer /\ IdleCount /\ IdleSort /\ IdleJoin /\ IdleExtract
SpecTimePath == TimePathInit /\ [][NextTimePath]_vars

VMUInit ==
    IdleFrame /\ IdleGap /\ IdleMerge /\ IdleDedup /\ IdleMix /\ IdleWalk /\ IdleTimePath
        /\ InitVMU /\ IdleSeek /\ IdleDiff /\ IdleTrack /\ IdlePackets /\ IdleBuffer /\ IdleCount /\ IdleSort /\ IdleJoin /\ IdleExtract
SpecVMU == VMUInit /\ [][NextVMU]_vars

SeekInit ==
    IdleFrame /\ IdleGap /\ IdleMerge /\ IdleDedup /\ IdleMix /\ IdleWalk /\ IdleTimePath
        /\ IdleVMU /\ InitSeek /\ IdleDiff /\ IdleTrack /\ IdlePackets /\ IdleBuffer /\ IdleCount /\ IdleSort /\ IdleJoin /\ IdleExtract
SpecSeek == SeekInit /\ [][NextSeek]_vars

DiffInit ==
    IdleFrame /\ IdleGap /\ IdleMerge /\ IdleDedup /\ IdleMix /\ IdleWalk /\ IdleTimePath
        /\ IdleVMU /\ IdleSeek /\ InitDiff /\ IdleTrack /\ IdlePackets /\ IdleBuffer /\ IdleCount /\ IdleSort /\ IdleJoin /\ IdleExtract
SpecDiff == DiffInit /\ [][NextDiff]_vars

TrackInit ==
    IdleFrame /\ IdleGap /\ IdleMerge /\ IdleDedup /\ IdleMix /\ IdleWalk /\ IdleTimePath
        /\ IdleVMU /\ IdleSeek /\ IdleDiff /\ InitTrack /\ IdlePackets /\ IdleBuffer /\ IdleCount /\ IdleSort /\ IdleJoin /\ IdleExtract
SpecTrack == TrackInit /\ [][NextTrack]_vars

PacketsInit ==
    IdleFrame /\ IdleGap /\ IdleMerge /\ IdleDedup /\ IdleMix /\ IdleWalk
        /\ IdleTimePath /\ IdleVMU /\ IdleSeek /\ IdleDiff /\ IdleTrack /\ InitPackets /\ IdleBuffer /\ IdleCount /\ IdleSort /\ IdleJoin /\ IdleExtract
SpecPackets == PacketsInit /\ [][NextPackets]_vars /\ WF_vars(NextPackets)

BufferInit ==
    IdleFrame /\ IdleGap /\ IdleMerge /\ IdleDedup /\ IdleMix /\ IdleWalk
        /\ IdleTimePath /\ IdleVMU /\ IdleSeek /\ IdleDiff /\ IdleTrack /\ IdlePackets
        /\ InitBuffer /\ IdleCount /\ IdleSort /\ IdleJoin /\ IdleExtract
SpecBuffer == BufferInit /\ [][NextBuffer]_vars

CountInit ==
    IdleFrame /\ IdleGap /\ IdleMerge /\ IdleDedup /\ IdleMix /\ IdleWalk
        /\ IdleTimePath /\ IdleVMU /\ IdleSeek /\ IdleDiff /\ IdleTrack /\ IdlePackets
        /\ IdleBuffer /\ InitCount /\ IdleSort /\ IdleJoin /\ IdleExtract
SpecCount == CountInit /\ [][NextCount]_vars

SortInit ==
    IdleFrame /\ IdleGap /\ IdleMerge /\ IdleDedup /\ IdleMix /\ IdleWalk
        /\ IdleTimePath /\ IdleVMU /\ IdleSeek /\ IdleDiff /\ IdleTrack /\ IdlePackets
        /\ IdleBuffer /\ IdleCount /\ InitSort /\ IdleJoin /\ IdleExtract
SpecSort == SortInit /\ [][NextSort]_vars

JoinInit ==
    IdleFrame /\ IdleGap /\ IdleMerge /\ IdleDedup /\ IdleMix /\ IdleWalk
        /\ IdleTimePath /\ IdleVMU /\ IdleSeek /\ IdleDiff /\ IdleTrack /\ IdlePackets
        /\ IdleBuffer /\ IdleCount /\ IdleSort /\ InitJoin /\ IdleExtract
SpecJoin == JoinInit /\ [][NextJoin]_vars

ExtractInit ==
    IdleFrame /\ IdleGap /\ IdleMerge /\ IdleDedup /\ IdleMix /\ IdleWalk
        /\ IdleTimePath /\ IdleVMU /\ IdleSeek /\ IdleDiff /\ IdleTrack /\ IdlePackets
        /\ IdleBuffer /\ IdleCount /\ IdleSort /\ IdleJoin /\ InitExtract
SpecExtract == ExtractInit /\ [][NextExtract]_vars /\ WF_vars(NextExtract)

====
